---- MODULE Spec2Model ----
(***************************************************************************)
(* NullComm: the EncryptedMessenger contract (per-recipient message log    *)
(* and FHE access grants), the confidential key store it relies on, the    *)
(* envelope cipher of the browser app and of the Hardhat tasks, and the    *)
(* send and decrypt paths that compose them.                               *)
(*                                                                         *)
(* One module, several specifications over the same variables:             *)
(*   Spec        the contract: sendMessage, getMessageCount, getMessageAt  *)
(*   SpecStore   the contract with the key store's user decryption         *)
(*   SpecCipher  encryptMessage / decryptMessage of the browser app and    *)
(*               encryptMessageWithAddress / decryptMessageWithAddress of  *)
(*               the Hardhat tasks, applied to wire strings                *)
(*   SpecE2E     the send paths (MessageComposer.handleSend and            *)
(*               task:send-message) and the decrypt paths                  *)
(*               (Inbox.handleDecrypt and task:decrypt-message) against    *)
(*               the contract and the key store                            *)
(*   SpecSend    the send paths called repeatedly, also after a send that  *)
(*               reverted                                                  *)
(*   SpecSession the decrypt attempt step by step: Inbox.handleDecrypt     *)
(*               with its list of items, and task:decrypt-message;         *)
(*               SpecSessionFair adds that every awaited call returns or   *)
(*               throws                                                    *)
(*   SpecLoad    the load effect of the inbox run by run and read by read, *)
(*               while the wallet connects, switches and disconnects and   *)
(*               other accounts keep sending                               *)
(*   SpecInbox   the inbox with its loads and a decrypt attempt, under     *)
(*               connects, switches and disconnects of the wallet          *)
(*   SpecCompose MessageComposer.handleSend step by step, its transaction  *)
(*               in flight, and the inbox that onSent refreshes            *)
(*   SpecRecover normalizeDecryptedAddress applied to the clear value of   *)
(*               an address in each of its forms, between encrypt and      *)
(*               decrypt of either implementation                          *)
(***************************************************************************)
EXTENDS Integers, Sequences, FiniteSets, TLC

VARIABLES
    messages,   \* _messages: recipient -> array of Message
    acl,        \* FHE access grants: set of <<handle, account>>
    events,     \* MessageSent log, in emission order
    now,        \* block.timestamp / wall clock, in days
    ret,        \* outcome of the last call
    sent,       \* history: the arguments of every successful append, per recipient
    clear,      \* key store: handle -> the address that was encrypted under it
    drawn,      \* history: the handle of every one-time address a send path generated
    proof,      \* the authorization proof of the current decrypt attempt (<<>> if none)
    expiredSeen, \* history: the current proof was once rejected after its window
    input,      \* the message submitted and the one-time address generated for it
    payload,    \* envelope cipher: the iv.body.tag wire string in hand
    produced,   \* history: which encrypt made the wire string, its iv, what was done to it
                \* since, and the <<recipient, index>> it was stored at
    output,     \* outcome of the last decrypt
    inbox,      \* Inbox: the list of MessageItem shown to the connected user
    attempts,   \* decrypt attempts: the position and local values of each call
    error,      \* Inbox: the error shown (<<>> when none)
    calls,      \* history: how often each attempt has called userDecrypt and decrypt,
                \* the request it signed and when, the window it handed to userDecrypt
    shown,      \* history: the account whose log the list was last loaded from
    account,    \* useAccount().address: the connected account ("" when none)
    countCache, \* useReadContract(getMessageCount): the count last fetched per account
    refreshToken, \* MessengerApp: incremented by onSent
    loads,      \* Inbox: the runs of the load effect that have not returned
    isLoading,  \* Inbox: the loading indicator
    composer    \* MessageComposer: the position and local values of handleSend, its
                \* transaction in flight; history: the steps of the send, the records
                \* it appended and its calls of onSent

vars == <<messages, acl, events, now, ret, sent, clear, drawn, proof, expiredSeen,
          input, payload, produced, output, inbox, attempts, error, calls, shown,
          account, countCache, refreshToken, loads, isLoading, composer>>

cipherVars == <<input, payload, produced, output>>

uiVars == <<account, countCache, refreshToken, loads, isLoading, composer>>

sessionVars == <<inbox, attempts, error, calls, shown, uiVars>>

----------------------------------------------------------------------------
(* Bounds of the model *)

MaxSends == 2

(* Accounts. address(0) is ZERO; the contract's own address is THIS. *)
ZERO == "0x0"
THIS == "EncryptedMessenger"
Users == {"alice", "bob"}
Principals == Users \cup {"carol"}
Accounts == Principals \cup {ZERO, THIS}

(* Encrypted inputs: createEncryptedInput(contract, user).addAddress(a).encrypt() *)
(* yields a handle and an input proof bound to the contract and to user.          *)
(* A handle is <<user, n>>: the n-th input that user encrypted.                   *)
InputNos == {1}
Handles == Users \X InputNos
InputOwner(handle) == handle[1]

(* The send paths encrypt a new input on every call: each user has a       *)
(* further input for a send that is made again.                            *)
SpareNos == {2}
Pool == Users \X (InputNos \cup SpareNos)

(* The one-time address encrypted under a handle of the initial pool: a     *)
(* 20-byte value, written as the number it encodes; distinct per handle.    *)
UserNo(user) == CASE user = "alice" -> 0 [] user = "bob" -> 1 [] OTHER -> 2
EphemeralOf(handle) ==
    UserNo(handle[1]) * Cardinality(InputNos \cup SpareNos) + handle[2]

(* Block timestamps of the contract specification, in days. *)
BlockTimes == {0, 1}

(* Ciphertext strings handed to the contract, as character sequences. *)
Strings == {<<>>, <<"x">>, <<"y">>}

----------------------------------------------------------------------------
(* The contract *)

(* A record whose sender field is left at its zero value. *)
MessageWithoutSender(sender, encryptedMessage, encryptedKey, timestamp) ==
    [sender |-> ZERO, encryptedMessage |-> encryptedMessage,
     encryptedKey |-> encryptedKey, timestamp |-> timestamp]

Message(sender, encryptedMessage, encryptedKey, timestamp) ==
    [sender |-> sender, encryptedMessage |-> encryptedMessage,
     encryptedKey |-> encryptedKey, timestamp |-> timestamp]

(* A push that writes over the last element instead of extending the array. *)
PushOverwrite(array, message) ==
    IF Len(array) = 0 THEN <<message>> ELSE [array EXCEPT ![Len(array)] = message]

(* A push that puts the new element in front of the others. *)
PushFront(array, message) == <<message>> \o array

Push(array, message) == Append(array, message)

(* FHE.fromExternal(encryptedKey, inputProof): the input proof binds the    *)
(* handle to this contract and to the account that encrypted the input; the *)
(* call reverts for any other msg.sender.                                   *)
fromExternalOk(sender, encryptedKey) == InputOwner(encryptedKey) = sender

(* Grants that name msg.sender where the code names the recipient. *)
GrantsToSender(sender, recipient, key) == {<<key, THIS>>, <<key, sender>>}

(* Grants that keep the sender's access next to the recipient's. *)
GrantsAlsoSender(sender, recipient, key) ==
    {<<key, THIS>>, <<key, recipient>>, <<key, sender>>}

(* The access grants sendMessage makes on the key: FHE.allowThis(key) and  *)
(* FHE.allow(key, recipient).                                               *)
Grants(sender, recipient, key) == {<<key, THIS>>, <<key, recipient>>}

(* The outcome of a call: its name, whether it returned, what it reverted   *)
(* or threw with, its arguments, and what it returned (<<>> if nothing).    *)
(* event MessageSent(sender, recipient, index), emitted with               *)
(* _messages[recipient].length - 1 after the push.                          *)
MessageSent(sender, recipient, index) ==
    [sender |-> sender, recipient |-> recipient, index |-> index]

(* The event index taken as the new length instead of the new last index. *)
EmittedIndexLength(array) == Len(array)

EmittedIndex(array) == Len(array) - 1

Ret(op, ok, err, args, val) ==
    [op |-> op, ok |-> ok, err |-> err, args |-> args, val |-> val]

(* sendMessage without its require on the recipient. *)
sendMessageErrorNoRecipientCheck(sender, recipient, encryptedMessage, encryptedKey) ==
    IF Len(encryptedMessage) = 0 THEN "Empty message"
    ELSE IF ~fromExternalOk(sender, encryptedKey) THEN "Invalid input proof"
    ELSE ""

(* What sendMessage reverts with for these arguments, "" if it does not. *)
sendMessageError(sender, recipient, encryptedMessage, encryptedKey) ==
    IF recipient = ZERO THEN "Invalid recipient"
    ELSE IF Len(encryptedMessage) = 0 THEN "Empty message"
    ELSE IF ~fromExternalOk(sender, encryptedKey) THEN "Invalid input proof"
    ELSE ""

SendMessage(sender, recipient, encryptedMessage, encryptedKey) ==
    LET err == sendMessageError(sender, recipient, encryptedMessage, encryptedKey)
    IN  IF err # ""
        THEN /\ ret' = Ret("sendMessage", FALSE, err, <<recipient, encryptedMessage>>, <<>>)
             /\ UNCHANGED <<messages, acl, events, sent>>
        ELSE /\ messages' = [messages EXCEPT ![recipient] =
                    Push(@, Message(sender, encryptedMessage, encryptedKey, now))]
             /\ acl' = acl \cup Grants(sender, recipient, encryptedKey)
             /\ events' = Append(events,
                    MessageSent(sender, recipient, EmittedIndex(messages'[recipient])))
             /\ sent' = [sent EXCEPT ![recipient] = Append(@,
                    [sender |-> sender, ciphertext |-> encryptedMessage,
                     handle |-> encryptedKey, timestamp |-> now])]
             /\ ret' = Ret("sendMessage", TRUE, "", <<recipient, encryptedMessage>>, <<>>)

getMessageCount(recipient) == Len(messages[recipient])

(* A bounds check that lets index = length through and reads a zero slot. *)
getMessageAtInclusive(recipient, index) ==
    IF index <= Len(messages[recipient])
    THEN Ret("getMessageAt", TRUE, "", <<recipient, index>>,
             <<IF index < Len(messages[recipient])
               THEN messages[recipient][index + 1]
               ELSE Message(ZERO, <<>>, <<ZERO, 0>>, 0)>>)
    ELSE Ret("getMessageAt", FALSE, "Panic(0x32)", <<recipient, index>>, <<>>)

(* _messages[recipient][index]: an index past the end panics (0x32). *)
getMessageAt(recipient, index) ==
    IF index < Len(messages[recipient])
    THEN Ret("getMessageAt", TRUE, "", <<recipient, index>>, <<messages[recipient][index + 1]>>)
    ELSE Ret("getMessageAt", FALSE, "Panic(0x32)", <<recipient, index>>, <<>>)

GetMessageCount(recipient) ==
    /\ ret' = Ret("getMessageCount", TRUE, "", <<recipient>>, <<getMessageCount(recipient)>>)
    /\ UNCHANGED <<messages, acl, events, sent>>

GetMessageAt(recipient, index) ==
    /\ ret' = getMessageAt(recipient, index)
    /\ UNCHANGED <<messages, acl, events, sent>>

Tick(days) ==
    /\ now' = now + days
    /\ UNCHANGED <<messages, acl, events, ret, sent, clear, drawn, proof, expiredSeen>>
    /\ UNCHANGED <<cipherVars, sessionVars>>

TotalSends == Len(events)

NoRet == Ret("", TRUE, "", <<>>, <<>>)

(* Decrypt attempts are told apart by an identity; before it starts an     *)
(* attempt is Idle and holds nothing.  user is the account that signs the  *)
(* request, owner the account whose log the record was read from.          *)
AttemptIds == {1, 2}

NoAttempt ==
    [by |-> "", state |-> "Idle", user |-> "", owner |-> "", index |-> 0,
     handle |-> <<>>,
     wire |-> <<>>, keypair |-> <<>>, startTimeStamp |-> <<>>,
     durationDays |-> <<>>, request |-> <<>>, rawKey |-> <<>>,
     decrypted |-> <<>>, err |-> "", resolved |-> {}]

NoCalls == [userDecrypt |-> 0, decrypt |-> 0, built |-> <<>>, submitted |-> <<>>]

(* The runs of the inbox's load effect are told apart by an identity; a    *)
(* run that has returned, or has not begun, is Idle                        *)
LoadIds == {1, 2}

NoLoad ==
    [state |-> "Idle", mounted |-> FALSE, address |-> "", count |-> 0,
     results |-> <<>>, failed |-> FALSE, outOfRange |-> FALSE]

(* Before handleSend has been called *)
NoComposer ==
    [state |-> "Idle", isSending |-> FALSE, error |-> <<>>,
     sender |-> "", recipient |-> "", message |-> <<>>,
     ephemeralAddress |-> <<>>, encryptedMessage |-> <<>>, handle |-> <<>>,
     pending |-> <<>>, steps |-> <<>>, appended |-> 0, onSent |-> 0]

(* Before the envelope cipher has been used *)
NoInput == [message |-> <<>>, address |-> <<>>]
NoProduced == [by |-> "", iv |-> <<>>, tamper |-> <<"", 0>>, item |-> <<>>]
NoOutput == [by |-> "", item |-> <<>>, address |-> <<>>, ok |-> FALSE, err |-> "", text |-> <<>>]

Init ==
    /\ messages = [r \in Accounts |-> <<>>]
    /\ acl = {}
    /\ events = <<>>
    /\ now = 0
    /\ ret = NoRet
    /\ sent = [r \in Accounts |-> <<>>]
    /\ clear = [h \in Pool |-> EphemeralOf(h)]
    /\ drawn = <<>>
    /\ proof = <<>>
    /\ expiredSeen = FALSE
    /\ input = NoInput
    /\ payload = <<>>
    /\ produced = NoProduced
    /\ output = NoOutput
    /\ inbox = <<>>
    /\ attempts = [a \in AttemptIds |-> NoAttempt]
    /\ error = <<>>
    /\ calls = [a \in AttemptIds |-> NoCalls]
    /\ shown = ""
    /\ account = ""
    /\ countCache = [user \in Users |-> <<>>]
    /\ refreshToken = 0
    /\ loads = [l \in LoadIds |-> NoLoad]
    /\ isLoading = FALSE
    /\ composer = NoComposer

Next ==
    \/ /\ TotalSends < MaxSends
       /\ \E s \in Users, r \in Users \cup {ZERO}, m \in Strings, h \in Handles :
              SendMessage(s, r, m, h)
       /\ UNCHANGED <<now, clear, drawn, proof, expiredSeen, input, payload, produced, output, sessionVars>>
    \/ /\ \E r \in Users \cup {ZERO} : GetMessageCount(r)
       /\ UNCHANGED <<now, clear, drawn, proof, expiredSeen, input, payload, produced, output, sessionVars>>
    \/ /\ \E r \in Users \cup {ZERO}, i \in 0..MaxSends : GetMessageAt(r, i)
       /\ UNCHANGED <<now, clear, drawn, proof, expiredSeen, input, payload, produced, output, sessionVars>>
    \/ /\ now + 1 \in BlockTimes
       /\ Tick(1)

Spec == Init /\ [][Next]_vars

----------------------------------------------------------------------------
(* Properties of the contract, checked under Spec *)

(* The record getMessageAt returns, as the tuple the ABI hands back. *)
Returned(r) == <<r.val[1].sender, r.val[1].encryptedMessage,
                 r.val[1].encryptedKey, r.val[1].timestamp>>

Appended(a) == <<a.sender, a.ciphertext, a.handle, a.timestamp>>

LogMatchesHistory ==
    \A r \in Accounts :
        /\ getMessageCount(r) = Len(sent[r])
        /\ \A k \in 0..(Len(sent[r]) - 1) :
              /\ getMessageAt(r, k).ok
              /\ Returned(getMessageAt(r, k)) = Appended(sent[r][k + 1])

RecordsStable ==
    \A r \in Accounts : \A k \in 0..(getMessageCount(r) - 1) :
        /\ k < getMessageCount(r)'
        /\ getMessageAt(r, k)'.val = getMessageAt(r, k).val

(* C1. Log monotonicity: after n successful appends to a recipient its     *)
(* count is n (0 for a recipient never appended to), getMessageAt(r, k)     *)
(* for k < n returns the sender, ciphertext, key handle and timestamp of    *)
(* the k-th successful append, and no later step changes a stored record.   *)
C1_LogMonotonicity == [](LogMatchesHistory) /\ [][RecordsStable]_vars

(* Two appends to one recipient, then the first record is read back. *)
C1_Witness ==
    /\ ret.op = "getMessageAt" /\ ret.ok /\ ret.args[2] = 0
    /\ Len(sent[ret.args[1]]) = 2
    /\ sent[ret.args[1]][1] # sent[ret.args[1]][2]
    /\ getMessageCount(ZERO) = 0

EventsOf(recipient, upto) ==
    {i \in 1..upto : events[i].recipient = recipient}

IndicesInOrder ==
    /\ \A j \in 1..Len(events) :
          /\ events[j].index = Cardinality(EventsOf(events[j].recipient, j - 1))
          /\ events[j].index < Len(messages[events[j].recipient])
          /\ messages[events[j].recipient][events[j].index + 1].sender = events[j].sender
    /\ \A r \in Accounts :
          Len(messages[r]) = Cardinality(EventsOf(r, Len(events)))

LengthOnlyGrows ==
    \A r \in Accounts :
        /\ Len(messages'[r]) >= Len(messages[r])
        /\ Len(messages'[r]) <= Len(messages[r]) + 1
        /\ Len(messages'[r]) = Len(messages[r]) + 1 =>
              /\ Len(events') = Len(events) + 1
              /\ events'[Len(events')].recipient = r
              /\ events'[Len(events')].index = Len(messages[r])

(* C20. Sender attribution: the sender stored in every record is the       *)
(* account that made the sendMessage call which appended it, whatever the  *)
(* recipient and the arguments of the call; no call stores another sender. *)
C20_SenderAttribution ==
    \A r \in Accounts :
        /\ Len(messages[r]) = Len(sent[r])
        /\ \A i \in 1..Len(messages[r]) :
              /\ messages[r][i].sender = sent[r][i].sender
              /\ messages[r][i].sender \in Users
              /\ messages[r][i].sender = InputOwner(messages[r][i].encryptedKey)

(* One log holds a record its owner appended and a record another account  *)
(* appended. *)
C20_Witness ==
    \E r \in Users :
        /\ Len(messages[r]) = 2
        /\ messages[r][1].sender = r
        /\ messages[r][2].sender \in Users \ {r}
        /\ ret.op = "sendMessage" /\ ret.ok

(* C6. Index assignment: every successful append to a recipient gets the   *)
(* index equal to the log's length just before it (the index in            *)
(* MessageSent); within one log the indices are 0, 1, 2, ... in append     *)
(* order, never reused; the length never decreases; a duplicate send gets  *)
(* a new index of its own.                                                  *)
C6_IndexAssignment == [](IndicesInOrder) /\ [][LengthOnlyGrows]_vars

(* The same sender sent the same ciphertext under the same handle twice to *)
(* one recipient, between sends of another sender. *)
C6_Witness ==
    \E r \in Users :
        /\ Len(messages[r]) = 2
        /\ messages[r][1].sender = messages[r][2].sender
        /\ messages[r][1].encryptedMessage = messages[r][2].encryptedMessage
        /\ messages[r][1].encryptedKey = messages[r][2].encryptedKey
        /\ events[Len(events)].index = 1

LedgerUnchanged == UNCHANGED <<messages, acl, events>>

RejectedBeforeMutation ==
    ret'.op = "sendMessage" =>
        /\ ret'.args[1] = ZERO =>
              ~ret'.ok /\ ret'.err = "Invalid recipient" /\ LedgerUnchanged
        /\ (ret'.args[1] # ZERO /\ Len(ret'.args[2]) = 0) =>
              ~ret'.ok /\ ret'.err = "Empty message" /\ LedgerUnchanged

NothingInvalidStored ==
    /\ messages[ZERO] = <<>>
    /\ \A r \in Accounts : \A k \in 1..Len(messages[r]) :
          Len(messages[r][k].encryptedMessage) > 0
    /\ \A g \in acl : g[2] # ZERO
    /\ \A j \in 1..Len(events) : events[j].recipient # ZERO

(* C7. Append validation: a sendMessage to address(0) reverts with         *)
(* "Invalid recipient", a sendMessage with an empty ciphertext (to a       *)
(* non-zero recipient; the recipient is checked first) reverts with        *)
(* "Empty message", and in both cases every log, every count, every access *)
(* grant and the event log are as before the call.                         *)
C7_AppendValidation == [](NothingInvalidStored) /\ [][RejectedBeforeMutation]_vars

(* A rejected append after a successful one: there was state to damage. *)
C7_Witness ==
    /\ ret.op = "sendMessage" /\ ~ret.ok
    /\ ret.err = "Empty message"
    /\ Len(events) = 1 /\ acl # {}

ReadIsRangeChecked ==
    ret.op = "getMessageAt" =>
        /\ ret.ok <=> ret.args[2] < getMessageCount(ret.args[1])
        /\ ~ret.ok => ret.err = "Panic(0x32)" /\ ret.val = <<>>
        /\ ret.ok => ret.val = <<messages[ret.args[1]][ret.args[2] + 1]>>

ReadChangesNothing ==
    (ret' # ret /\ ret'.op = "getMessageAt") =>
        LedgerUnchanged /\ UNCHANGED <<now, clear>>

(* C8. Out-of-range read: getMessageAt(r, index) fails (array bounds       *)
(* panic) exactly when index >= getMessageCount(r), for address(0) and     *)
(* never-seen recipients at every index, succeeds for every smaller index, *)
(* and changes no state either way.                                        *)
C8_OutOfRangeRead == [](ReadIsRangeChecked) /\ [][ReadChangesNothing]_vars

(* A read at index = count of a non-empty log fails. *)
C8_Witness ==
    /\ ret.op = "getMessageAt" /\ ~ret.ok
    /\ ret.args[2] = getMessageCount(ret.args[1])
    /\ ret.args[2] > 0

----------------------------------------------------------------------------
(* The confidential key store: user decryption of a handle *)

(* handleDecrypt signs a request for the contract, valid from the current  *)
(* time for durationDays = '10' days.                                       *)
DurationDays == 10

(* A request signed for one day more than the code asks for. *)
BuildProofForLonger(principal, time) ==
    [principal |-> principal, startTimeStamp |-> time,
     durationDays |-> DurationDays + 1, contractAddresses |-> {THIS}]

BuildProofFor(principal, time) ==
    [principal |-> principal, startTimeStamp |-> time,
     durationDays |-> DurationDays, contractAddresses |-> {THIS}]

InWindow(p, time) ==
    /\ p.startTimeStamp <= time
    /\ time <= p.startTimeStamp + p.durationDays

(* The store releases the value under handle (held for contractAddress) to *)
(* the signer of p when both the signer and the contract hold a grant on    *)
(* the handle, the request names the contract, and the request is inside    *)
(* its validity window.                                                     *)
Authorized(handle, contractAddress, p, time) ==
    /\ <<handle, p.principal>> \in acl
    /\ <<handle, contractAddress>> \in acl
    /\ contractAddress \in p.contractAddresses
    /\ p.principal # contractAddress
    /\ InWindow(p, time)

userDecrypt(handle, contractAddress, p, time) ==
    IF Authorized(handle, contractAddress, p, time)
    THEN Ret("userDecrypt", TRUE, "", <<handle, p, time>>, <<clear[handle]>>)
    ELSE Ret("userDecrypt", FALSE, "Unauthorized", <<handle, p, time>>, <<>>)

BuildProof(principal) ==
    /\ proof' = <<BuildProofFor(principal, now)>>
    /\ expiredSeen' = FALSE
    /\ UNCHANGED <<messages, acl, events, now, ret, sent, clear, drawn>>
    /\ UNCHANGED <<cipherVars, sessionVars>>

Resolve(handle) ==
    /\ proof # <<>>
    /\ ret' = userDecrypt(handle, THIS, proof[1], now)
    /\ expiredSeen' = (expiredSeen \/ (~ret'.ok /\ now > proof[1].startTimeStamp + proof[1].durationDays))
    /\ UNCHANGED <<messages, acl, events, now, sent, clear, drawn, proof>>
    /\ UNCHANGED <<cipherVars, sessionVars>>

StoreHorizon == 2 * DurationDays + 1

NextStore ==
    \/ /\ TotalSends < MaxSends
       /\ \E s \in Users, r \in Users, h \in Handles :
              SendMessage(s, r, <<"x">>, h)
       /\ UNCHANGED <<now, clear, drawn, proof, expiredSeen, input, payload, produced, output, sessionVars>>
    \/ \E d \in {DurationDays, DurationDays + 1} :
          /\ now + d <= StoreHorizon
          /\ Tick(d)
    \/ \E p \in Principals : BuildProof(p)
    \/ \E h \in Handles : Resolve(h)

SpecStore == Init /\ [][NextStore]_vars

----------------------------------------------------------------------------
(* Properties of the key store, checked under SpecStore *)

(* The recipients named in the sends that committed a handle. *)
CommitRecipients(handle) ==
    {r \in Accounts : \E k \in 1..Len(sent[r]) : sent[r][k].handle = handle}

(* The accounts holding a grant on a handle. *)
GrantedTo(handle) == {a \in Accounts : <<handle, a>> \in acl}

(* The principals the store releases a handle's value to, asked now with a *)
(* freshly built request.                                                   *)
ReleasedTo(handle) ==
    {p \in Principals : Authorized(handle, THIS, BuildProofFor(p, now), now)}

CommitEvents(handle) ==
    {j \in 1..Len(events) :
        messages[events[j].recipient][events[j].index + 1].encryptedKey = handle}

FirstRecipient(handle) ==
    events[CHOOSE j \in CommitEvents(handle) :
               \A i \in CommitEvents(handle) : j <= i].recipient

(* C3 as stated: the store releases a committed handle to exactly the      *)
(* recipient named at commit, and nobody else (sender, storing contract,   *)
(* third party) is ever granted access.                                     *)
C3_OwnerOnlyAsStated ==
    \A h \in Handles :
        CommitEvents(h) # {} =>
            /\ ReleasedTo(h) = {FirstRecipient(h)}
            /\ GrantedTo(h) \subseteq {FirstRecipient(h)}

GrantsAreContractAndRecipients ==
    \A h \in Handles :
        /\ GrantedTo(h) = IF CommitRecipients(h) = {} THEN {}
                          ELSE {THIS} \cup CommitRecipients(h)
        /\ ReleasedTo(h) = CommitRecipients(h) \cap Principals

GrantsOnlyGrowBySend ==
    \A h \in Handles :
        /\ GrantedTo(h) \subseteq GrantedTo(h)'
        /\ GrantedTo(h)' # GrantedTo(h) =>
              /\ Len(events') = Len(events) + 1
              /\ LET e == events'[Len(events')]
                 IN  /\ messages'[e.recipient][e.index + 1].encryptedKey = h
                     /\ GrantedTo(h)' \ GrantedTo(h) \subseteq {THIS, e.recipient}

(* C3, amended. The accounts granted access to a committed handle are      *)
(* exactly the storing contract and the recipients named in the sends that *)
(* committed that handle; the store releases the value only to those       *)
(* recipients; the sender (unless named as recipient) and third parties    *)
(* are never granted access; grants are never removed, and only a further  *)
(* send of the same handle adds one, for the recipient it names.           *)
C3_OwnerOnlyRelease == [](GrantsAreContractAndRecipients) /\ [][GrantsOnlyGrowBySend]_vars

(* The sender of a committed handle asked for its value and was refused,   *)
(* inside the window of its request; the handle is held by the contract    *)
(* and by the one recipient.                                                *)
C3_Witness ==
    /\ ret.op = "userDecrypt" /\ ~ret.ok
    /\ ret.args[2].principal = InputOwner(ret.args[1])
    /\ ret.args[3] = ret.args[2].startTimeStamp
    /\ Cardinality(GrantedTo(ret.args[1])) = 2

(* C5. Expiry: a request built by the decrypt path is refused with         *)
(* Unauthorized by every user decryption made more than 10 days after its  *)
(* start, and once it has been refused as expired it is never accepted.    *)
C5_Expiry ==
    ret.op = "userDecrypt" =>
        /\ ret.args[3] > ret.args[2].startTimeStamp + DurationDays =>
              ~ret.ok /\ ret.err = "Unauthorized" /\ ret.val = <<>>
        /\ (expiredSeen /\ proof = <<ret.args[2]>>) => ~ret.ok

(* A request of the recipient, built after the commit, refused after its  *)
(* window has elapsed.                                                      *)
C5_Witness ==
    /\ ret.op = "userDecrypt" /\ ~ret.ok /\ expiredSeen
    /\ proof = <<ret.args[2]>>
    /\ ret.args[3] > ret.args[2].startTimeStamp + DurationDays
    /\ \E k \in 1..Len(sent[ret.args[2].principal]) :
          /\ sent[ret.args[2].principal][k].handle = ret.args[1]
          /\ sent[ret.args[2].principal][k].timestamp <= ret.args[2].startTimeStamp

----------------------------------------------------------------------------
(* Envelope cipher: app/src/utils/crypto.ts (browser, WebCrypto) and        *)
(* tasks/EncryptedMessenger.ts (Node, crypto module).                       *)

(* JavaScript strings are sequences of UTF-16 units.  "a" stands for an    *)
(* ordinary character, " " for white space, "BOM" for U+FEFF, "SUR" for an *)
(* unpaired surrogate and "FFFD" for the replacement character U+FFFD.     *)
MaxPlainLen == 2
PlainChars == {"a", " ", "BOM", "SUR"}
Plaintexts == UNION {[1..n -> PlainChars] : n \in 0..MaxPlainLen}

WellFormed(s) == \A i \in 1..Len(s) : s[i] # "SUR"

(* UTF-8: an unpaired surrogate has no encoding and is written as U+FFFD *)
Utf8Of(c) ==
    CASE c = "a" -> <<97>>
      [] c = " " -> <<32>>
      [] c = "BOM" -> <<239, 187, 191>>
      [] OTHER -> <<239, 191, 189>>

RECURSIVE Utf8Encode(_)
Utf8Encode(s) ==
    IF s = <<>> THEN <<>> ELSE Utf8Of(Head(s)) \o Utf8Encode(Tail(s))

RECURSIVE Utf8Decode(_)
Utf8Decode(bytes) ==
    IF bytes = <<>> THEN <<>>
    ELSE IF Head(bytes) = 97 THEN <<"a">> \o Utf8Decode(Tail(bytes))
    ELSE IF Head(bytes) = 32 THEN <<" ">> \o Utf8Decode(Tail(bytes))
    ELSE IF Len(bytes) >= 3 /\ SubSeq(bytes, 1, 3) = <<239, 187, 191>>
         THEN <<"BOM">> \o Utf8Decode(SubSeq(bytes, 4, Len(bytes)))
    ELSE IF Len(bytes) >= 3 /\ SubSeq(bytes, 1, 3) = <<239, 191, 189>>
         THEN <<"FFFD">> \o Utf8Decode(SubSeq(bytes, 4, Len(bytes)))
    ELSE <<"FFFD">> \o Utf8Decode(Tail(bytes))

(* new TextEncoder().encode(message); cipher.update(message, "utf8") *)
textEncoderEncode(message) == Utf8Encode(message)

(* new TextDecoder().decode(bytes): a leading byte order mark is dropped *)
textDecoderDecode(bytes) ==
    IF Len(bytes) >= 3 /\ SubSeq(bytes, 1, 3) = <<239, 187, 191>>
    THEN Utf8Decode(SubSeq(bytes, 4, Len(bytes)))
    ELSE Utf8Decode(bytes)

(* buffer.toString("utf8"): a leading byte order mark is kept *)
toStringUtf8(bytes) == Utf8Decode(bytes)

(* Addresses are strings of 40 hexadecimal digits after "0x"; a digit is   *)
(* its value 0..15 (letter case and the checksum are not distinguished).   *)
AddressDigits == 40

RECURSIVE toString16(_)
toString16(value) ==
    IF value < 16 THEN <<value>> ELSE toString16(value \div 16) \o <<value % 16>>

padStart(s, length, c) ==
    IF Len(s) >= length THEN s
    ELSE [i \in 1..length |-> IF i <= length - Len(s) THEN c ELSE s[i - (length - Len(s))]]

isAddress(address) == Len(address) = AddressDigits

(* ethers.Wallet.createRandom().address, for the random value n *)
generateEphemeralAddress(n) == padStart(toString16(n), AddressDigits, 0)

Identifiers == {generateEphemeralAddress(EphemeralOf(h)) : h \in Handles}

hexToBytes(hex) ==
    LET normalized == IF Len(hex) % 2 = 0 THEN hex ELSE <<0>> \o hex
    IN  [i \in 1..(Len(normalized) \div 2) |->
            16 * normalized[2 * i - 1] + normalized[2 * i]]

(* SHA-256 of the 20 address bytes, as an injective symbol: the digest is *)
(* named by the bytes without their leading zeros                         *)
RECURSIVE Significant(_)
Significant(bytes) ==
    IF bytes # <<>> /\ Head(bytes) = 0 THEN Significant(Tail(bytes)) ELSE bytes

sha256(bytes) == [sha256 |-> Significant(bytes)]

deriveKeyFromAddressPrefix(address) ==
    sha256(SubSeq(hexToBytes(address), 1, Len(hexToBytes(address)) - 1))

deriveKeyFromAddress(address) == sha256(hexToBytes(address))

(* Bytes of a ciphertext.  AES-256-GCM is modelled symbolically: the i-th  *)
(* body byte is determined by key, iv, position and plaintext byte, and    *)
(* the j-th tag byte by key, iv, the whole body and j.  x marks a byte     *)
(* whose bits were changed.  Inside a byte the iv is named by the values   *)
(* of its bytes and the body by the plaintext it encrypts; -1 names what   *)
(* no encryption has produced.                                             *)
IvLength == 12
TagLength == 16

NoKey == [sha256 |-> <<>>]

Byte(t, key, iv, body, n, p) ==
    [t |-> t, key |-> key, iv |-> iv, body |-> body, n |-> n, p |-> p, x |-> FALSE]

IvByte(v) == Byte("iv", NoKey, <<>>, <<>>, v, 0)

IvName(iv) ==
    [i \in 1..Len(iv) |-> IF iv[i] = IvByte(iv[i].n) THEN iv[i].n ELSE -1]

(* crypto.getRandomValues(new Uint8Array(12)); randomBytes(12) *)
RandomIvs == {[i \in 1..IvLength |-> IvByte(v)] : v \in {0, 1}}

Flip(b) == [b EXCEPT !.x = ~b.x]

GcmBody(key, iv, plain) ==
    LET name == IvName(iv)
    IN  [i \in 1..Len(plain) |-> Byte("ct", key, name, <<>>, i, plain[i])]

GcmPlain(key, iv, body) ==
    LET name == IvName(iv)
    IN  [i \in 1..Len(body) |->
            IF body[i] = Byte("ct", key, name, <<>>, i, body[i].p)
            THEN body[i].p ELSE -1]

GcmTag(key, iv, body) ==
    LET name == IvName(iv)
        plain == GcmPlain(key, iv, body)
    IN  [j \in 1..TagLength |-> Byte("tag", key, name, plain, j, 0)]

(* Wire strings: sequences of characters.  A base64 character stands for   *)
(* one byte; "." separates the fields; "!" is outside the base64 alphabet. *)
B64(b) == [c |-> "b64", byte |-> b]
Dot == [c |-> ".", byte |-> IvByte(0)]
Foreign == [c |-> "!", byte |-> IvByte(0)]

(* btoa(binary); buffer.toString("base64") *)
bytesToBase64(bytes) == [i \in 1..Len(bytes) |-> B64(bytes[i])]

IsBase64(s) == \A i \in 1..Len(s) : s[i].c = "b64"

(* atob(base64), defined when IsBase64(base64); atob throws otherwise *)
base64ToBytes(base64) == [i \in 1..Len(base64) |-> base64[i].byte]

(* Buffer.from(s, "base64"): characters outside the alphabet are skipped *)
IsB64Char(ch) == ch.c = "b64"

bufferFromBase64(s) == base64ToBytes(SelectSeq(s, IsB64Char))

(* `${iv}.${data}.${tag}` *)
Join(ivB64, dataB64, tagB64) == ivB64 \o <<Dot>> \o dataB64 \o <<Dot>> \o tagB64

(* payload.split(".") *)
RECURSIVE split(_)
split(wire) ==
    IF \A i \in 1..Len(wire) : wire[i].c # "." THEN <<wire>>
    ELSE LET i == CHOOSE k \in 1..Len(wire) :
                      wire[k].c = "." /\ \A l \in 1..(k - 1) : wire[l].c # "."
         IN  <<SubSeq(wire, 1, i - 1)>> \o split(SubSeq(wire, i + 1, Len(wire)))

(* Outcome of a decrypt call *)
Fulfilled(text) == [ok |-> TRUE, err |-> "", text |-> text]
Thrown(err) == [ok |-> FALSE, err |-> err, text |-> <<>>]

(* crypto.subtle.encrypt({name: 'AES-GCM', iv}, key, encoded): body then tag *)
subtleEncrypt(key, iv, encoded) ==
    LET body == GcmBody(key, iv, encoded) IN body \o GcmTag(key, iv, body)

(* crypto.subtle.decrypt({name: 'AES-GCM', iv}, key, combined): the last   *)
(* 16 bytes are the tag; rejects with OperationError                       *)
subtleDecrypt(key, iv, combined) ==
    IF Len(combined) < TagLength THEN Thrown("OperationError")
    ELSE LET body == SubSeq(combined, 1, Len(combined) - TagLength)
             tag == SubSeq(combined, Len(combined) - TagLength + 1, Len(combined))
         IN  IF tag = GcmTag(key, iv, body)
             THEN Fulfilled(GcmPlain(key, iv, body))
             ELSE Thrown("OperationError")

(* An encrypt whose body field holds the encoded message as it is. *)
encryptMessagePlainBody(message, address, iv) ==
    LET key == deriveKeyFromAddress(address)
        encoded == textEncoderEncode(message)
        encrypted == subtleEncrypt(key, iv, encoded)
        tagLength == TagLength
        data == [i \in 1..Len(encoded) |-> IvByte(encoded[i])]
        tag == SubSeq(encrypted, Len(encrypted) - tagLength + 1, Len(encrypted))
    IN  Join(bytesToBase64(iv), bytesToBase64(data), bytesToBase64(tag))

encryptMessageTagLength15(message, address, iv) ==
    LET key == deriveKeyFromAddress(address)
        encoded == textEncoderEncode(message)
        encrypted == subtleEncrypt(key, iv, encoded)
        tagLength == TagLength - 1
        data == SubSeq(encrypted, 1, Len(encrypted) - tagLength)
        tag == SubSeq(encrypted, Len(encrypted) - tagLength + 1, Len(encrypted))
    IN  Join(bytesToBase64(iv), bytesToBase64(data), bytesToBase64(tag))

encryptMessage(message, address, iv) ==
    LET key == deriveKeyFromAddress(address)
        encoded == textEncoderEncode(message)
        encrypted == subtleEncrypt(key, iv, encoded)
        tagLength == TagLength
        data == SubSeq(encrypted, 1, Len(encrypted) - tagLength)
        tag == SubSeq(encrypted, Len(encrypted) - tagLength + 1, Len(encrypted))
    IN  Join(bytesToBase64(iv), bytesToBase64(data), bytesToBase64(tag))

decryptMessageAtLeast3Parts(wire, address) ==
    LET parts == split(wire)
    IN  IF Len(parts) < 3 THEN Thrown("Invalid encrypted message payload")
        ELSE IF \E k \in 1..3 : ~IsBase64(parts[k]) THEN Thrown("InvalidCharacterError")
        ELSE IF ~isAddress(address) THEN Thrown("invalid address")
        ELSE LET iv == base64ToBytes(parts[1])
                 data == base64ToBytes(parts[2])
                 tag == base64ToBytes(parts[3])
                 combined == data \o tag
                 key == deriveKeyFromAddress(address)
                 decrypted == subtleDecrypt(key, iv, combined)
             IN  IF decrypted.ok
                 THEN Fulfilled(textDecoderDecode(decrypted.text))
                 ELSE decrypted

decryptMessage(wire, address) ==
    LET parts == split(wire)
    IN  IF Len(parts) # 3 THEN Thrown("Invalid encrypted message payload")
        ELSE IF \E k \in 1..3 : ~IsBase64(parts[k]) THEN Thrown("InvalidCharacterError")
        ELSE IF ~isAddress(address) THEN Thrown("invalid address")
        ELSE LET iv == base64ToBytes(parts[1])
                 data == base64ToBytes(parts[2])
                 tag == base64ToBytes(parts[3])
                 combined == data \o tag
                 key == deriveKeyFromAddress(address)
                 decrypted == subtleDecrypt(key, iv, combined)
             IN  IF decrypted.ok
                 THEN Fulfilled(textDecoderDecode(decrypted.text))
                 ELSE decrypted

(* Node: createCipheriv("aes-256-gcm", key, iv), update, final, getAuthTag *)
encryptMessageWithAddress(message, address, iv) ==
    LET key == deriveKeyFromAddress(address)
        ciphertext == GcmBody(key, iv, textEncoderEncode(message))
        tag == GcmTag(key, iv, ciphertext)
    IN  Join(bytesToBase64(iv), bytesToBase64(ciphertext), bytesToBase64(tag))

(* decipher.setAuthTag(tag) accepts these tag lengths when authTagLength   *)
(* was not given to createDecipheriv                                       *)
AuthTagLengths == {4, 8, 12, 13, 14, 15, 16}

decryptMessageWithAddress(wire, address) ==
    LET parts == split(wire)
    IN  IF Len(parts) # 3 THEN Thrown("Invalid encrypted message payload")
        ELSE IF ~isAddress(address) THEN Thrown("invalid address")
        ELSE LET iv == bufferFromBase64(parts[1])
                 ciphertext == bufferFromBase64(parts[2])
                 tag == bufferFromBase64(parts[3])
                 key == deriveKeyFromAddress(address)
             IN  IF Len(iv) = 0 THEN Thrown("Invalid initialization vector")
                 ELSE IF Len(tag) \notin AuthTagLengths
                      THEN Thrown("Invalid authentication tag length")
                 ELSE IF tag # SubSeq(GcmTag(key, iv, ciphertext), 1, Len(tag))
                      THEN Thrown("Unsupported state or unable to authenticate data")
                 ELSE Fulfilled(toStringUtf8(GcmPlain(key, iv, ciphertext)))

(* The cipher applied to wire strings.  The wire string is public (it is   *)
(* the encryptedMessage of a stored record), so anyone can hand decrypt a  *)
(* rewritten one: one byte changed, the boundary between body and tag      *)
(* moved, the tag shortened, or a foreign character inserted.              *)
Inputs == [message : Plaintexts, address : Identifiers]

Output(by, item, address, outcome) ==
    [by |-> by, item |-> item, address |-> address,
     ok |-> outcome.ok, err |-> outcome.err, text |-> outcome.text]

EncryptMessage(iv) ==
    /\ produced = NoProduced
    /\ payload' = encryptMessage(input.message, input.address, iv)
    /\ produced' = [by |-> "browser", iv |-> iv, tamper |-> <<"none", 0>>, item |-> <<>>]
    /\ UNCHANGED <<input, output>>

EncryptMessageWithAddress(iv) ==
    /\ produced = NoProduced
    /\ payload' = encryptMessageWithAddress(input.message, input.address, iv)
    /\ produced' = [by |-> "node", iv |-> iv, tamper |-> <<"none", 0>>, item |-> <<>>]
    /\ UNCHANGED <<input, output>>

DecryptMessage(address) ==
    /\ produced # NoProduced
    /\ output' = Output("browser", <<>>, address, decryptMessage(payload, address))
    /\ UNCHANGED <<input, payload, produced>>

DecryptMessageWithAddress(address) ==
    /\ produced # NoProduced
    /\ output' = Output("node", <<>>, address, decryptMessageWithAddress(payload, address))
    /\ UNCHANGED <<input, payload, produced>>

Rewrite(kind, wire) ==
    /\ produced # NoProduced
    /\ produced.tamper = <<"none", 0>>
    /\ output = NoOutput
    /\ payload' = wire
    /\ produced' = [produced EXCEPT !.tamper = kind]
    /\ UNCHANGED <<input, output>>

FlipAt(s, pos) == [s EXCEPT ![pos] = B64(Flip(s[pos].byte))]

(* One byte of field k changed, at its first or last position *)
FlipByte(k) ==
    LET parts == split(payload)
    IN  /\ Len(parts) = 3
        /\ parts[k] # <<>>
        /\ \E pos \in {1, Len(parts[k])} :
              Rewrite(<<"flip", k>>,
                      Join(IF k = 1 THEN FlipAt(parts[1], pos) ELSE parts[1],
                           IF k = 2 THEN FlipAt(parts[2], pos) ELSE parts[2],
                           IF k = 3 THEN FlipAt(parts[3], pos) ELSE parts[3]))

(* The same bytes, with the "." between body and tag one place further on *)
(* or one place back                                                      *)
Resplit ==
    LET parts == split(payload)
    IN  /\ Len(parts) = 3
        /\ \/ Rewrite(<<"resplit", 1>>,
                      Join(parts[1], parts[2] \o <<Head(parts[3])>>, Tail(parts[3])))
           \/ /\ parts[2] # <<>>
              /\ Rewrite(<<"resplit", 0>>,
                         Join(parts[1], SubSeq(parts[2], 1, Len(parts[2]) - 1),
                              <<parts[2][Len(parts[2])]>> \o parts[3]))

(* The tag field cut to its first length bytes *)
TruncateTag(length) ==
    LET parts == split(payload)
    IN  /\ Len(parts) = 3
        /\ Rewrite(<<"truncate", length>>,
                   Join(parts[1], parts[2], SubSeq(parts[3], 1, length)))

(* A character outside the base64 alphabet put in front of field k *)
InsertForeign(k) ==
    LET parts == split(payload)
    IN  /\ Len(parts) = 3
        /\ Rewrite(<<"foreign", k>>,
                   Join(IF k = 1 THEN <<Foreign>> \o parts[1] ELSE parts[1],
                        IF k = 2 THEN <<Foreign>> \o parts[2] ELSE parts[2],
                        IF k = 3 THEN <<Foreign>> \o parts[3] ELSE parts[3]))

TruncatedLengths == {0, 4, 15}

(* The iv field cut to its first length bytes *)
TruncateIv(length) ==
    LET parts == split(payload)
    IN  /\ Len(parts) = 3
        /\ Rewrite(<<"truncateIv", length>>,
                   Join(SubSeq(parts[1], 1, length), parts[2], parts[3]))

TruncatedIvLengths == {0, 11}

(* Another number of fields: the first one or two fields only, or a fourth *)
(* (empty) one after a further "."                                         *)
Repart(n) ==
    LET parts == split(payload)
    IN  /\ Len(parts) = 3
        /\ Rewrite(<<"repart", n>>,
                   CASE n = 1 -> parts[1]
                     [] n = 2 -> parts[1] \o <<Dot>> \o parts[2]
                     [] OTHER -> payload \o <<Dot>>)

PartCounts == {1, 2, 4}

ledgerVars == <<messages, acl, events, now, ret, sent, clear, drawn, proof, expiredSeen>>

InitCipher ==
    /\ messages = [r \in Accounts |-> <<>>]
    /\ acl = {}
    /\ events = <<>>
    /\ now = 0
    /\ ret = NoRet
    /\ sent = [r \in Accounts |-> <<>>]
    /\ clear = [h \in Pool |-> EphemeralOf(h)]
    /\ drawn = <<>>
    /\ proof = <<>>
    /\ expiredSeen = FALSE
    /\ input \in Inputs
    /\ payload = <<>>
    /\ produced = NoProduced
    /\ output = NoOutput
    /\ inbox = <<>>
    /\ attempts = [a \in AttemptIds |-> NoAttempt]
    /\ error = <<>>
    /\ calls = [a \in AttemptIds |-> NoCalls]
    /\ shown = ""
    /\ account = ""
    /\ countCache = [user \in Users |-> <<>>]
    /\ refreshToken = 0
    /\ loads = [l \in LoadIds |-> NoLoad]
    /\ isLoading = FALSE
    /\ composer = NoComposer

NextCipher ==
    \/ /\ \E iv \in RandomIvs : EncryptMessage(iv)
       /\ UNCHANGED <<ledgerVars, sessionVars>>
    \/ /\ \E iv \in RandomIvs : EncryptMessageWithAddress(iv)
       /\ UNCHANGED <<ledgerVars, sessionVars>>
    \/ /\ \E address \in Identifiers : DecryptMessage(address)
       /\ UNCHANGED <<ledgerVars, sessionVars>>
    \/ /\ \E address \in Identifiers : DecryptMessageWithAddress(address)
       /\ UNCHANGED <<ledgerVars, sessionVars>>
    \/ /\ \E k \in 1..3 : FlipByte(k)
       /\ UNCHANGED <<ledgerVars, sessionVars>>
    \/ /\ Resplit
       /\ UNCHANGED <<ledgerVars, sessionVars>>
    \/ /\ \E length \in TruncatedLengths : TruncateTag(length)
       /\ UNCHANGED <<ledgerVars, sessionVars>>
    \/ /\ \E k \in 1..3 : InsertForeign(k)
       /\ UNCHANGED <<ledgerVars, sessionVars>>
    \/ /\ \E length \in TruncatedIvLengths : TruncateIv(length)
       /\ UNCHANGED <<ledgerVars, sessionVars>>
    \/ /\ \E n \in PartCounts : Repart(n)
       /\ UNCHANGED <<ledgerVars, sessionVars>>

SpecCipher == InitCipher /\ [][NextCipher]_vars

----------------------------------------------------------------------------
(* Round trip of the envelope cipher *)

StripLeadingBOM(s) == IF s # <<>> /\ Head(s) = "BOM" THEN Tail(s) ELSE s

(* decrypt was applied, under the identifier given to encrypt, to the wire *)
(* string exactly as encrypt returned it                                   *)
RoundTrip ==
    /\ output.by # ""
    /\ produced.tamper = <<"none", 0>>
    /\ output.address = input.address

(* C9 as stated: for every plaintext m and every identifier i,             *)
(* decrypt(encrypt(m, i), i) returns m.                                    *)
C9_RoundTripAsStated ==
    RoundTrip => (output.ok /\ output.text = input.message)

(* C9: for every plaintext m without an unpaired surrogate and every       *)
(* identifier i, decrypt(encrypt(m, i), i) succeeds and returns m, the     *)
(* empty plaintext included, whichever of the two implementations encrypts *)
(* and whichever decrypts; the browser's decryptMessage returns m without  *)
(* its first character when that character is U+FEFF.                      *)
C9_CipherRoundTrip ==
    (RoundTrip /\ WellFormed(input.message)) =>
        /\ output.ok
        /\ output.text = IF output.by = "browser"
                         THEN StripLeadingBOM(input.message)
                         ELSE input.message

(* A plaintext of the greatest length, encrypted by one implementation and *)
(* returned unchanged by the other                                         *)
C9_Witness ==
    /\ RoundTrip
    /\ WellFormed(input.message)
    /\ Len(input.message) = MaxPlainLen
    /\ produced.by # output.by
    /\ output.ok
    /\ output.text = input.message

----------------------------------------------------------------------------
(* Tamper detection *)

(* The wire string as encrypt returned it *)
Original ==
    IF produced.by = "browser"
    THEN encryptMessage(input.message, input.address, produced.iv)
    ELSE encryptMessageWithAddress(input.message, input.address, produced.iv)

(* The wire string in hand has the three fields, the iv field as encrypt   *)
(* returned it, and another body field or another tag field                *)
BodyOrTagChanged ==
    /\ produced.by # ""
    /\ LET was == split(Original)
           is == split(payload)
       IN  /\ Len(is) = 3
           /\ is[1] = was[1]
           /\ (is[2] # was[2] \/ is[3] # was[3])

AuthenticationFailure ==
    {"OperationError", "Unsupported state or unable to authenticate data"}

(* What decrypt returns for the bytes that were encrypted *)
Encrypted ==
    IF output.by = "browser"
    THEN textDecoderDecode(textEncoderEncode(input.message))
    ELSE toStringUtf8(textEncoderEncode(input.message))

(* C10 as stated: for every wire string produced by encrypt, any change to *)
(* its body or tag field makes decrypt under the same identifier fail with *)
(* an authentication failure, and decrypt never returns a plaintext        *)
(* different from the one that was encrypted.                              *)
C10_TamperDetectionAsStated ==
    /\ (output.by # "" /\ output.address = input.address /\ BodyOrTagChanged) =>
           (~output.ok /\ output.err \in AuthenticationFailure)
    /\ (output.by # "" /\ output.ok) => output.text = Encrypted

(* What does hold: a changed byte of the body or of the tag, the fields    *)
(* keeping their lengths, is always rejected as an authentication failure, *)
(* and whatever the wire string was turned into, a successful decrypt      *)
(* returns the plaintext that was encrypted.                               *)
FlipsAreDetected ==
    (output.by # "" /\ produced.tamper \in {<<"flip", 2>>, <<"flip", 3>>}) =>
        (~output.ok /\ output.err \in AuthenticationFailure)

NeverAnotherPlaintext ==
    (output.by # "" /\ output.ok) => output.text = Encrypted

(* A rewritten wire string that decrypt accepts *)
AcceptedRewrite ==
    /\ output.by # ""
    /\ output.address = input.address
    /\ BodyOrTagChanged
    /\ output.ok

----------------------------------------------------------------------------
(* Malformed wire strings *)

(* The errors that report a wire string as malformed, raised before any    *)
(* decryption: the part count check, atob, createDecipheriv and setAuthTag *)
MalformedCiphertext ==
    {"Invalid encrypted message payload", "InvalidCharacterError",
     "Invalid initialization vector", "Invalid authentication tag length"}

(* The wire string in hand has three fields and an iv field that is not 12 *)
(* bytes or a tag field that is not 16 bytes                               *)
WrongFieldLengths ==
    LET parts == split(payload)
    IN  /\ Len(parts) = 3
        /\ \/ Len(bufferFromBase64(parts[1])) # IvLength
           \/ Len(bufferFromBase64(parts[3])) # TagLength

(* C11 as stated: decrypt fails with MalformedCiphertext, and returns no   *)
(* plaintext, for every wire string whose iv field is not 12 bytes or      *)
(* whose tag field is not 16 bytes, a wire string with the boundary        *)
(* between body and tag moved included.                                    *)
C11_FieldLengthsAsStated ==
    (output.by # "" /\ WrongFieldLengths) =>
        (~output.ok /\ output.err \in MalformedCiphertext /\ output.text = <<>>)

(* C12: decrypt rejects every wire string that does not split into exactly *)
(* three parts at the dots, with the payload error and no plaintext, and   *)
(* every wire string returned by encrypt splits into exactly three parts:  *)
(* the iv, the body and the 16-byte tag, in this order.                    *)
C12_WirePartCount ==
    /\ (output.by # "" /\ Len(split(payload)) # 3) =>
           /\ ~output.ok
           /\ output.err = "Invalid encrypted message payload"
           /\ output.text = <<>>
    /\ (produced.by # "" /\ produced.tamper = <<"none", 0>>) =>
           LET parts == split(payload)
               key == deriveKeyFromAddress(input.address)
               body == GcmBody(key, produced.iv, textEncoderEncode(input.message))
           IN  /\ Len(parts) = 3
               /\ base64ToBytes(parts[1]) = produced.iv
               /\ base64ToBytes(parts[2]) = body
               /\ base64ToBytes(parts[3]) = GcmTag(key, produced.iv, body)
               /\ Len(parts[1]) = IvLength
               /\ Len(parts[3]) = TagLength

(* A wire string of four parts, its first three as encrypt returned them,  *)
(* was handed to decrypt and rejected                                      *)
C12_Witness ==
    /\ output.by # ""
    /\ produced.tamper = <<"repart", 4>>
    /\ Len(split(payload)) = 4
    /\ ~output.ok

(* C18: for every message and every two different identifiers, decrypt    *)
(* under the second of a wire string that encrypt returned under the first *)
(* fails with an authentication failure and returns no plaintext.          *)
C18_WrongKeyRejection ==
    (/\ output.by # ""
     /\ produced.tamper = <<"none", 0>>
     /\ output.address # input.address) =>
        (~output.ok /\ output.err \in AuthenticationFailure /\ output.text = <<>>)

(* A wire string as encrypt returned it, of a message that is not empty,   *)
(* was handed to decrypt with another identifier and rejected              *)
C18_Witness ==
    /\ output.by # ""
    /\ produced.tamper = <<"none", 0>>
    /\ payload = Original
    /\ input.message # <<>>
    /\ output.address \in Identifiers \ {input.address}
    /\ ~output.ok

----------------------------------------------------------------------------
(* The send and decrypt paths: app/src/components/MessageComposer.tsx and  *)
(* tasks/EncryptedMessenger.ts                                             *)

(* String.prototype.trim: white space and U+FEFF are removed at both ends *)
IsWhiteSpace(c) == c \in {" ", "BOM"}

RECURSIVE TrimStart(_)
TrimStart(s) ==
    IF s # <<>> /\ IsWhiteSpace(Head(s)) THEN TrimStart(Tail(s)) ELSE s

RECURSIVE TrimEnd(_)
TrimEnd(s) ==
    IF s # <<>> /\ IsWhiteSpace(s[Len(s)]) THEN TrimEnd(SubSeq(s, 1, Len(s) - 1)) ELSE s

trim(s) == TrimEnd(TrimStart(s))

(* The strings submitted to the send paths *)
Submitted ==
    {<<>>, <<" ">>, <<"a">>, <<" ", "a">>, <<"a", " ">>, <<"a", " ", "a">>,
     <<"BOM", "a">>, <<"a", "BOM">>, <<"a", "SUR">>}

(* A bigint wider than the integers of the checker is written by its      *)
(* limbs of 16 bits, the most significant first and, unless it is the only *)
(* one, not 0.                                                             *)
LimbDigits == 4

RECURSIVE StripZeroLimbs(_)
StripZeroLimbs(limbs) ==
    IF Len(limbs) > 1 /\ Head(limbs) = 0 THEN StripZeroLimbs(Tail(limbs)) ELSE limbs

(* The unsigned integer that the 20 bytes of an address encode *)
BigIntOf(address) ==
    StripZeroLimbs([k \in 1..(Len(address) \div LimbDigits) |->
        4096 * address[4 * k - 3] + 256 * address[4 * k - 2]
            + 16 * address[4 * k - 1] + address[4 * k]])

(* BigInt.prototype.toString(16): no leading zeros *)
RECURSIVE bigintToString16(_)
bigintToString16(value) ==
    IF Len(value) = 1 THEN toString16(value[1])
    ELSE bigintToString16(SubSeq(value, 1, Len(value) - 1))
            \o padStart(toString16(value[Len(value)]), LimbDigits, 0)

(* The clear value of the eaddress that encrypts an address, as            *)
(* userDecrypt hands it over: a bigint, or a string of its 40 hexadecimal  *)
(* digits with or without "0x" in front                                    *)
ClearValue(form, address) ==
    [type |-> IF form = "bigint" THEN "bigint" ELSE "string",
     n |-> IF form = "bigint" THEN BigIntOf(address) ELSE <<>>,
     prefixed |-> form = "0x",
     digits |-> IF form = "bigint" THEN <<>> ELSE address]

(* The clear value of the eaddress whose address is the number n *)
RawKey(form, n) == ClearValue(form, padStart(toString16(n), AddressDigits, 0))

RawKeyForms == {"bigint", "0x", "hex"}

(* ethers.getAddress: the 40 digits, with or without the prefix *)
normalizeAddress(address) == address.digits

(* A conversion of the bigint that does not pad its digits to 40 *)
normalizeDecryptedAddressNoPad(value) ==
    IF value.type = "string"
    THEN normalizeAddress(IF value.prefixed THEN value ELSE [value EXCEPT !.prefixed = TRUE])
    ELSE LET hex == bigintToString16(value.n)
         IN  normalizeAddress([type |-> "string", n |-> <<>>, prefixed |-> TRUE, digits |-> hex])

normalizeDecryptedAddress(value) ==
    IF value.type = "string"
    THEN normalizeAddress(IF value.prefixed THEN value ELSE [value EXCEPT !.prefixed = TRUE])
    ELSE LET hex == padStart(bigintToString16(value.n), AddressDigits, 0)
         IN  normalizeAddress([type |-> "string", n |-> <<>>, prefixed |-> TRUE, digits |-> hex])

(* A generator that hands out again an address whose send did not reach   *)
(* the ledger. *)
UnusedOnLedger(handle) ==
    \A r \in Accounts : \A k \in 1..Len(sent[r]) : sent[r][k].handle # handle

(* ethers.Wallet.createRandom(): every call of a send path generates an    *)
(* address, and with it an input, that no call has had before              *)
Unused(handle) ==
    /\ \A r \in Accounts : \A k \in 1..Len(sent[r]) : sent[r][k].handle # handle
    /\ \A k \in 1..Len(drawn) : drawn[k] # handle

(* The input a send path of the sender gets: the first of the pool that    *)
(* is unused                                                               *)
NextInput(sender, handle) ==
    /\ handle \in Pool
    /\ InputOwner(handle) = sender
    /\ Unused(handle)
    /\ \A h \in Pool : (InputOwner(h) = sender /\ h[2] < handle[2]) => ~Unused(h)

(* What a send path leaves behind, given the outcome ret' of its sendMessage *)
SendCompleted(by, message, ephemeralAddress, iv, recipient, encryptedMessage) ==
    IF ret'.ok
    THEN /\ input' = [message |-> message, address |-> ephemeralAddress]
         /\ payload' = encryptedMessage
         /\ produced' = [by |-> by, iv |-> iv, tamper |-> <<"none", 0>>,
                         item |-> <<recipient, Len(messages'[recipient]) - 1>>]
         /\ output' = NoOutput
    ELSE UNCHANGED <<input, payload, produced, output>>

handleSendNoTrim(sender, recipient, message, handle, iv) ==
    IF message = <<>>
    THEN /\ ret' = Ret("handleSend", FALSE, "Message text cannot be empty.", <<recipient, message>>, <<>>)
         /\ UNCHANGED <<messages, acl, events, sent, drawn, input, payload, produced, output>>
    ELSE LET ephemeralAddress == generateEphemeralAddress(clear[handle])
             encryptedMessage == encryptMessage(message, ephemeralAddress, iv)
         IN  /\ drawn' = Append(drawn, handle)
             /\ SendMessage(sender, recipient, encryptedMessage, handle)
             /\ SendCompleted("browser", message, ephemeralAddress, iv, recipient, encryptedMessage)

(* MessageComposer.handleSend *)
handleSend(sender, recipient, message, handle, iv) ==
    IF trim(message) = <<>>
    THEN /\ ret' = Ret("handleSend", FALSE, "Message text cannot be empty.", <<recipient, message>>, <<>>)
         /\ UNCHANGED <<messages, acl, events, sent, drawn, input, payload, produced, output>>
    ELSE LET ephemeralAddress == generateEphemeralAddress(clear[handle])
             encryptedMessage == encryptMessage(trim(message), ephemeralAddress, iv)
         IN  /\ drawn' = Append(drawn, handle)
             /\ SendMessage(sender, recipient, encryptedMessage, handle)
             /\ SendCompleted("browser", message, ephemeralAddress, iv, recipient, encryptedMessage)

HandleSend(sender, recipient, message, handle, iv) ==
    /\ NextInput(sender, handle)
    /\ handleSend(sender, recipient, message, handle, iv)

(* task:send-message *)
TaskSendMessage(sender, recipient, message, handle, iv) ==
    /\ NextInput(sender, handle)
    /\ LET ephemeralAddress == generateEphemeralAddress(clear[handle])
           encryptedMessage == encryptMessageWithAddress(message, ephemeralAddress, iv)
       IN  /\ drawn' = Append(drawn, handle)
           /\ SendMessage(sender, recipient, encryptedMessage, handle)
           /\ SendCompleted("node", message, ephemeralAddress, iv, recipient, encryptedMessage)

(* Inbox.handleDecrypt, for an item of the connected user's list *)
HandleDecrypt(user, index, form) ==
    /\ index < getMessageCount(user)
    /\ LET item == messages[user][index + 1]
           request == BuildProofFor(user, now)
           result == userDecrypt(item.encryptedKey, THIS, request, now)
       IN  /\ proof' = <<request>>
           /\ ret' = result
           /\ output' =
                IF ~result.ok
                THEN Output("browser", <<user, index>>, <<>>, Thrown(result.err))
                ELSE LET decryptedKey == normalizeDecryptedAddress(RawKey(form, result.val[1]))
                     IN  Output("browser", <<user, index>>, decryptedKey,
                                decryptMessage(item.encryptedMessage, decryptedKey))
    /\ UNCHANGED <<messages, acl, events, now, sent, clear, drawn, expiredSeen, input, payload, produced, sessionVars>>

(* task:decrypt-message; the signer is the recipient *)
TaskDecryptMessage(recipient, index) ==
    /\ LET message == getMessageAt(recipient, index)
           request == BuildProofFor(recipient, now)
           clearKey == IF message.ok
                       THEN userDecrypt(message.val[1].encryptedKey, THIS, request, now)
                       ELSE message
       IN  /\ proof' = IF message.ok THEN <<request>> ELSE proof
           /\ ret' = clearKey
           /\ output' =
                IF ~clearKey.ok
                THEN Output("node", <<recipient, index>>, <<>>, Thrown(clearKey.err))
                ELSE LET clearAddress == normalizeDecryptedAddress(RawKey("bigint", clearKey.val[1]))
                     IN  Output("node", <<recipient, index>>, clearAddress,
                                decryptMessageWithAddress(message.val[1].encryptedMessage, clearAddress))
    /\ UNCHANGED <<messages, acl, events, now, sent, clear, drawn, expiredSeen, input, payload, produced, sessionVars>>

(* Any account can also call sendMessage directly, with any string *)
OtherStrings == {<<Foreign>>}

(* The inbox that is followed *)
Recipients == {"bob"}

NextE2E ==
    \/ /\ TotalSends < MaxSends
       /\ drawn = <<>>
       /\ \E s \in Users, r \in Recipients \cup {ZERO}, m \in Submitted, h \in Pool, iv \in RandomIvs :
              HandleSend(s, r, m, h, iv)
       /\ UNCHANGED <<now, clear, proof, expiredSeen, sessionVars>>
    \/ /\ TotalSends < MaxSends
       /\ drawn = <<>>
       /\ \E s \in Users, r \in Recipients \cup {ZERO}, m \in Submitted, h \in Pool, iv \in RandomIvs :
              TaskSendMessage(s, r, m, h, iv)
       /\ UNCHANGED <<now, clear, proof, expiredSeen, sessionVars>>
    \/ /\ TotalSends < MaxSends
       /\ \E s \in Users, r \in Recipients, m \in OtherStrings, h \in Handles :
              InputOwner(h) = s /\ SendMessage(s, r, m, h)
       /\ UNCHANGED <<now, clear, drawn, proof, expiredSeen, input, payload, produced, output, sessionVars>>
    \/ \E user \in Recipients, index \in 0..(MaxSends - 1), form \in RawKeyForms :
          HandleDecrypt(user, index, form)
    \/ \E recipient \in Recipients, index \in 0..(MaxSends - 1) :
          TaskDecryptMessage(recipient, index)

SpecE2E == Init /\ [][NextE2E]_vars

----------------------------------------------------------------------------
(* End-to-end delivery *)

(* The recipient has decrypted the record that the completed send appended *)
Delivered ==
    /\ produced.item # <<>>
    /\ output.item = produced.item

(* C4 as stated: once a send of a plaintext string completes, the          *)
(* recipient's decrypt of the appended record returns exactly the string   *)
(* that was submitted.                                                     *)
C4_DeliveryAsStated ==
    Delivered => (output.ok /\ output.text = input.message)

(* The string a send path hands to encrypt *)
Sealed ==
    IF produced.by = "browser" THEN trim(input.message) ELSE input.message

(* C4: once a send of a string without unpaired surrogates completes, the  *)
(* recipient's decrypt of the appended record succeeds and returns the     *)
(* string that was encrypted: the submitted string for the send task, the  *)
(* submitted string without the white space at its ends for the UI         *)
(* composer; the browser inbox returns it without a U+FEFF at its start.   *)
C4_EndToEndDelivery ==
    (Delivered /\ WellFormed(input.message)) =>
        /\ output.ok
        /\ output.text = IF output.by = "browser" THEN StripLeadingBOM(Sealed) ELSE Sealed

(* A string with white space inside, sent by one path into an inbox that   *)
(* already holds a record, and returned unchanged by the other path        *)
C4_Witness ==
    /\ Delivered
    /\ produced.item[2] > 0
    /\ produced.by # output.by
    /\ input.message = <<"a", " ", "a">>
    /\ output.ok
    /\ output.text = input.message

(* The send paths alone, called again and again, also after a send that    *)
(* reverted: the strings submitted and the recipients named                *)
Resent == {<<"a">>, <<" ">>}

NextSend ==
    \/ /\ TotalSends < MaxSends
       /\ \E s \in Users, r \in Recipients \cup {ZERO}, m \in Resent, h \in Pool :
              HandleSend(s, r, m, h, CHOOSE iv \in RandomIvs : TRUE)
       /\ UNCHANGED <<now, clear, proof, expiredSeen, sessionVars>>
    \/ /\ TotalSends < MaxSends
       /\ \E s \in Users, r \in Recipients \cup {ZERO}, m \in Resent, h \in Pool :
              TaskSendMessage(s, r, m, h, CHOOSE iv \in RandomIvs : TRUE)
       /\ UNCHANGED <<now, clear, proof, expiredSeen, sessionVars>>

SpecSend == Init /\ [][NextSend]_vars

(* The fields of a record and of an event *)
RecordFields == {"sender", "encryptedMessage", "encryptedKey", "timestamp"}
EventFields == {"sender", "recipient", "index"}

(* Every byte of the field is a byte of kind t made under the key *)
MadeUnder(field, t, key) ==
    \A i \in 1..Len(field) :
        field[i].c = "b64" /\ field[i].byte.t = t /\ field[i].byte.key = key

(* C15: the ledger holds, for a send, only the ciphertext string, the      *)
(* handle, the sender, the recipient (the log the record is in) and the    *)
(* timestamp, and its event only sender, recipient and index.  The string  *)
(* a send path stores is the random iv, a body of which every byte is a    *)
(* ciphertext byte under the key of the one-time address, and a tag under  *)
(* that key; the one-time address is what the stored handle encrypts and   *)
(* is in no field; the message is in no field.                             *)
C15_NothingSecretOnLedger ==
    /\ \A r \in Accounts : \A k \in 1..Len(messages[r]) :
          /\ DOMAIN messages[r][k] = RecordFields
          /\ messages[r][k].encryptedKey \in Pool
          /\ messages[r][k].sender \in Users
          /\ messages[r][k].timestamp \in Nat
    /\ \A j \in 1..Len(events) : DOMAIN events[j] = EventFields
    /\ produced.item # <<>> =>
          LET record == messages[produced.item[1]][produced.item[2] + 1]
              parts == split(record.encryptedMessage)
              key == deriveKeyFromAddress(input.address)
          IN  /\ Len(parts) = 3
              /\ base64ToBytes(parts[1]) = produced.iv
              /\ Len(parts[2]) = Len(textEncoderEncode(Sealed))
              /\ MadeUnder(parts[2], "ct", key)
              /\ MadeUnder(parts[3], "tag", key)
              /\ input.address = generateEphemeralAddress(clear[record.encryptedKey])

(* The composer has sent a message of two characters and its record is in *)
(* the recipient's log                                                     *)
C15_Witness ==
    /\ produced.by = "browser"
    /\ produced.item # <<>>
    /\ Len(input.message) = 2
    /\ trim(input.message) = input.message
    /\ Len(messages[produced.item[1]]) > produced.item[2]

(* The records on the ledger, as <<recipient, position>> *)
Stored == {<<r, k>> \in Accounts \X (1..MaxSends) : k <= Len(sent[r])}

(* The one-time address a handle encrypts *)
AddressOf(handle) == generateEphemeralAddress(clear[handle])

(* C19: every call of a send path generates a new one-time address, which  *)
(* encrypts one message and is committed under one handle: over any        *)
(* sequence of sends, a send made again after one that failed included, no *)
(* address is generated or used twice, every stored string is encrypted    *)
(* under the address its own handle encrypts, and no two records share a   *)
(* handle.                                                                 *)
C19_OneEncryptionPerIdentifier ==
    /\ \A i, j \in 1..Len(drawn) :
          i # j => AddressOf(drawn[i]) # AddressOf(drawn[j])
    /\ TotalSends <= Len(drawn)
    /\ \A p \in Stored :
          LET record == sent[p[1]][p[2]]
              parts == split(record.ciphertext)
              key == deriveKeyFromAddress(AddressOf(record.handle))
          IN  /\ \E i \in 1..Len(drawn) : drawn[i] = record.handle
              /\ Len(parts) = 3
              /\ MadeUnder(parts[2], "ct", key)
              /\ MadeUnder(parts[3], "tag", key)
    /\ \A p, q \in Stored :
          p # q => sent[p[1]][p[2]].handle # sent[q[1]][q[2]].handle

(* A send reverted and the sender sent again: the second send generated    *)
(* another address and its record is on the ledger                         *)
C19_Witness ==
    \E i, j \in 1..Len(drawn) :
        /\ i < j
        /\ InputOwner(drawn[i]) = InputOwner(drawn[j])
        /\ \A p \in Stored : sent[p[1]][p[2]].handle # drawn[i]
        /\ \E p \in Stored : sent[p[1]][p[2]].handle = drawn[j]

----------------------------------------------------------------------------
(* The decrypt session, one step per awaited call: Inbox (loadMessages,    *)
(* handleDecrypt) in app/src/components/MessageComposer.tsx and            *)
(* task:decrypt-message in tasks/EncryptedMessenger.ts                     *)

(* A MessageItem as loadMessages builds it; an optional field that is      *)
(* undefined is <<>>, one that is set is a one-element tuple               *)
MessageItem(index, message) ==
    [index |-> index, sender |-> message.sender,
     encryptedMessage |-> message.encryptedMessage,
     encryptedKey |-> message.encryptedKey, timestamp |-> message.timestamp,
     decryptedMessage |-> <<>>, decryptedKey |-> <<>>, decrypting |-> FALSE]

(* results.reverse(): the newest record first *)
loadMessages(user) ==
    LET count == getMessageCount(user)
    IN  [k \in 1..count |-> MessageItem(count - k, getMessageAt(user, count - k).val[1])]

(* current.map((message) =>                                               *)
(*     message.index === index ? { ...message, decrypting } : message)     *)
Marked(list, index, decrypting) ==
    [k \in 1..Len(list) |->
        IF list[k].index = index
        THEN [list[k] EXCEPT !.decrypting = decrypting] ELSE list[k]]

(* The effect that reloads the list when the count or the refresh token    *)
(* changes                                                                 *)
LoadMessages(user) ==
    /\ inbox' = loadMessages(user)
    /\ error' = IF getMessageCount(user) > 0 THEN <<>> ELSE error
    /\ shown' = user
    /\ UNCHANGED <<attempts, calls>>

(* handleDecrypt while the wallet, the relayer instance or the signer      *)
(* promise is missing: the handler reports it and returns                  *)
HandleDecryptNotConnected ==
    /\ inbox # <<>>
    /\ error' = <<"Connect your wallet to decrypt messages.">>
    /\ UNCHANGED <<inbox, attempts, calls, shown>>

(* handleDecrypt(item) up to its first await: the item is marked.  The     *)
(* attempts are made one after the other.                                  *)
StartHandleDecrypt(a, user, k) ==
    /\ attempts[a].state = "Idle"
    /\ \A b \in AttemptIds : attempts[b].by # "node"
    /\ \A b \in AttemptIds : b < a => attempts[b].state \in {"Completed", "Failed"}
    /\ k \in 1..Len(inbox)
    /\ ~inbox[k].decrypting
    /\ attempts' = [attempts EXCEPT ![a] =
            [NoAttempt EXCEPT !.by = "browser", !.state = "Requested", !.user = user,
                              !.owner = shown,
                              !.index = inbox[k].index,
                              !.handle = inbox[k].encryptedKey,
                              !.wire = inbox[k].encryptedMessage]]
    /\ inbox' = Marked(inbox, inbox[k].index, TRUE)
    /\ UNCHANGED <<error, calls, shown>>

(* task:decrypt-message is invoked with a recipient and an index; the      *)
(* signer is the first account of the network configuration                *)
StartTaskDecryptMessage(a, signer, recipient, index) ==
    /\ \A b \in AttemptIds : attempts[b].state = "Idle"
    /\ a = 1
    /\ attempts' = [attempts EXCEPT ![a] =
            [NoAttempt EXCEPT !.by = "node", !.state = "Requested", !.user = signer,
                              !.owner = recipient, !.index = index]]
    /\ UNCHANGED <<inbox, error, calls, shown>>

(* The attempt ends: its locals are gone; the browser handler shows the    *)
(* error and clears the mark of its item, the task exits with the error    *)
Finished(attempt, state, err) ==
    [attempt EXCEPT !.state = state, !.err = err,
                    !.keypair = <<>>, !.startTimeStamp = <<>>,
                    !.durationDays = <<>>, !.request = <<>>, !.rawKey = <<>>,
                    !.decrypted = <<>>]

(* An ending that leaves the mark of the item set. *)
FailKeepingMark(a, err) ==
    /\ attempts' = [attempts EXCEPT ![a] = Finished(@, "Failed", err)]
    /\ IF attempts[a].by = "browser"
       THEN /\ error' = <<err>>
            /\ UNCHANGED <<inbox, output>>
       ELSE /\ output' = Output("node", <<attempts[a].owner, attempts[a].index>>, <<>>, Thrown(err))
            /\ UNCHANGED <<inbox, error>>

(* An ending that shows no error. *)
FailSilently(a, err) ==
    /\ attempts' = [attempts EXCEPT ![a] = Finished(@, "Failed", err)]
    /\ IF attempts[a].by = "browser"
       THEN /\ inbox' = Marked(inbox, attempts[a].index, FALSE)
            /\ UNCHANGED <<error, output>>
       ELSE UNCHANGED <<inbox, error, output>>

Fail(a, err) ==
    /\ attempts' = [attempts EXCEPT ![a] = Finished(@, "Failed", err)]
    /\ IF attempts[a].by = "browser"
       THEN /\ error' = <<err>>
            /\ inbox' = Marked(inbox, attempts[a].index, FALSE)
            /\ UNCHANGED output
       ELSE /\ output' = Output("node", <<attempts[a].owner, attempts[a].index>>, <<>>, Thrown(err))
            /\ UNCHANGED <<inbox, error>>

(* const handleContractPairs = [{ handle: item.encryptedKey, contractAddress }] *)
handleContractPairs(handle) == <<[handle |-> handle, contractAddress |-> THIS]>>

(* What the signer answers: missing, or it rejects the typed data, or signs *)
SignerOutcomes == {"none", "rejects", "signs"}

(* await signerPromise, generateKeypair, createEIP712, signTypedData; the  *)
(* task first compares its signer with the recipient and reads the record  *)
BuildProofStep(a, signer) ==
    LET attempt == attempts[a]
        message == getMessageAt(attempt.owner, attempt.index)
        startTimeStamp == now
        durationDays == DurationDays
        eip712 == BuildProofFor(attempt.user, startTimeStamp)
    IN  /\ attempt.state = "Requested"
        /\ calls' = IF (attempt.by = "node" /\ (attempt.user # attempt.owner \/ ~message.ok))
                       \/ signer # "signs"
                    THEN calls
                    ELSE [calls EXCEPT ![a].built = <<[at |-> now, signed |-> eip712]>>]
        /\ IF attempt.by = "node" /\ attempt.user # attempt.owner
           THEN Fail(a, "Signer must match the recipient address")
           ELSE IF attempt.by = "node" /\ ~message.ok
           THEN Fail(a, message.err)
           ELSE IF signer = "none" THEN Fail(a, "Signer not available.")
           ELSE IF signer = "rejects" THEN Fail(a, "user rejected action")
           ELSE /\ attempts' = [attempts EXCEPT ![a] =
                       [@ EXCEPT !.state = "ProofBuilt",
                                 !.handle = IF attempt.by = "node"
                                            THEN message.val[1].encryptedKey ELSE @,
                                 !.wire = IF attempt.by = "node"
                                          THEN message.val[1].encryptedMessage ELSE @,
                                 !.keypair = <<a>>,
                                 !.startTimeStamp = <<startTimeStamp>>,
                                 !.durationDays = <<durationDays>>,
                                 !.request = <<eip712>>]]
                /\ UNCHANGED <<inbox, error, output>>

(* The calls an attempt has made after one more userDecrypt, followed by   *)
(* a decrypt of the envelope cipher when the key was obtained              *)
Called(made, startTimeStamp, durationDays, decrypts) ==
    [made EXCEPT !.userDecrypt = @ + 1,
                 !.decrypt = @ + (IF decrypts THEN 1 ELSE 0),
                 !.submitted = <<[startTimeStamp |-> startTimeStamp,
                                  durationDays |-> durationDays]>>]

(* A step that hands the same proof to userDecrypt once more after the     *)
(* store refused it. *)
ResolveStepRetrying(a, form, found) ==
    LET attempt == attempts[a]
        pairs == handleContractPairs(attempt.handle)
        result == userDecrypt(pairs[1].handle, pairs[1].contractAddress,
                              attempt.request[1], now)
        rawKey == RawKey(form, result.val[1])
        decryptedKey == normalizeDecryptedAddress(rawKey)
    IN  /\ attempt.state = "ProofBuilt"
        /\ calls' = [calls EXCEPT ![a] =
                        Called(@, attempt.startTimeStamp[1], attempt.durationDays[1],
                               result.ok /\ found)]
        /\ IF ~result.ok /\ calls[a].userDecrypt = 0
           THEN UNCHANGED <<attempts, inbox, error, output>>
           ELSE IF ~result.ok THEN Fail(a, result.err)
           ELSE IF ~found THEN Fail(a, "Failed to retrieve decrypted key.")
           ELSE /\ attempts' = [attempts EXCEPT ![a] =
                       [@ EXCEPT !.state = "Resolved",
                                 !.rawKey = <<rawKey>>,
                                 !.decrypted =
                                     <<IF attempt.by = "browser"
                                       THEN decryptMessage(attempt.wire, decryptedKey)
                                       ELSE decryptMessageWithAddress(attempt.wire, decryptedKey)>>,
                                 !.resolved = @ \cup {pairs[1].handle}]]
                /\ UNCHANGED <<inbox, error, output>>

(* instance.userDecrypt(handleContractPairs, ..., signature, ...), the    *)
(* lookup result[item.encryptedKey] (found tells whether the result holds  *)
(* the handle), normalizeDecryptedAddress and the call of decryptMessage,  *)
(* whose outcome the attempt then awaits                                   *)
ResolveStep(a, form, found) ==
    LET attempt == attempts[a]
        pairs == handleContractPairs(attempt.handle)
        result == userDecrypt(pairs[1].handle, pairs[1].contractAddress,
                              attempt.request[1], now)
        rawKey == RawKey(form, result.val[1])
        decryptedKey == normalizeDecryptedAddress(rawKey)
    IN  /\ attempt.state = "ProofBuilt"
        /\ calls' = [calls EXCEPT ![a] =
                        Called(@, attempt.startTimeStamp[1], attempt.durationDays[1],
                               result.ok /\ found)]
        /\ IF ~result.ok THEN Fail(a, result.err)
           ELSE IF ~found THEN Fail(a, "Failed to retrieve decrypted key.")
           ELSE /\ attempts' = [attempts EXCEPT ![a] =
                       [@ EXCEPT !.state = "Resolved",
                                 !.rawKey = <<rawKey>>,
                                 !.decrypted =
                                     <<IF attempt.by = "browser"
                                       THEN decryptMessage(attempt.wire, decryptedKey)
                                       ELSE decryptMessageWithAddress(attempt.wire, decryptedKey)>>,
                                 !.resolved = @ \cup {pairs[1].handle}]]
                /\ UNCHANGED <<inbox, error, output>>

(* An update of the item that keeps the message and drops the key. *)
DecryptedWithoutKey(item, decryptedKey, decryptedMessage) ==
    [item EXCEPT !.decryptedMessage = <<decryptedMessage>>,
                 !.decrypting = FALSE]

(* The item with the results of a completed attempt *)
Decrypted(item, decryptedKey, decryptedMessage) ==
    [item EXCEPT !.decryptedKey = <<decryptedKey>>,
                 !.decryptedMessage = <<decryptedMessage>>,
                 !.decrypting = FALSE]

(* current.map((message) => message.index === index                       *)
(*     ? { ...message, decryptedKey, decryptedMessage, decrypting: false } *)
(*     : message)                                                          *)
Updated(list, index, decryptedKey, decryptedMessage) ==
    [k \in 1..Len(list) |->
        IF list[k].index = index
        THEN Decrypted(list[k], decryptedKey, decryptedMessage) ELSE list[k]]

(* decryptMessage has returned or thrown: the update of the item; the     *)
(* task prints the address and the plaintext                               *)
FinishStep(a) ==
    LET attempt == attempts[a]
        decryptedKey == normalizeDecryptedAddress(attempt.rawKey[1])
        outcome == attempt.decrypted[1]
    IN  /\ attempt.state = "Resolved"
        /\ UNCHANGED calls
        /\ IF ~outcome.ok THEN Fail(a, outcome.err)
           ELSE /\ attempts' = [attempts EXCEPT ![a] = Finished(@, "Completed", "")]
                /\ IF attempt.by = "browser"
                   THEN /\ inbox' = Updated(inbox, attempt.index, decryptedKey, outcome.text)
                        /\ error' = <<>>
                        /\ UNCHANGED output
                   ELSE /\ output' = Output("node", <<attempt.owner, attempt.index>>,
                                            decryptedKey, outcome)
                        /\ UNCHANGED <<inbox, error>>

(* The signed request of an attempt in flight is handed to userDecrypt     *)
(* with another handle                                                     *)
Resubmit(a, handle) ==
    LET attempt == attempts[a]
        result == userDecrypt(handle, THIS, attempt.request[1], now)
    IN  /\ attempt.request # <<>>
        /\ handle # attempt.handle
        /\ ~Unused(handle)
        /\ attempts' = [attempts EXCEPT ![a].resolved =
                            IF result.ok THEN @ \cup {handle} ELSE @]
        /\ UNCHANGED <<inbox, error, output, calls>>

(* The send that is followed: its sender, message and iv; the other       *)
(* account calls sendMessage directly.  The logs are written before the    *)
(* inbox is opened, and the clock moves while a signed request is in hand  *)
SessionSender == "alice"
SessionMessage == <<"a">>
SessionIv == CHOOSE iv \in RandomIvs : TRUE

NoSession == inbox = <<>> /\ \A a \in AttemptIds : attempts[a].state = "Idle"

NextSession ==
    \/ /\ TotalSends < MaxSends
       /\ produced = NoProduced
       /\ NoSession
       /\ \E h \in Pool :
              HandleSend(SessionSender, "bob", SessionMessage, h, SessionIv)
       /\ UNCHANGED <<now, clear, proof, expiredSeen, sessionVars>>
    \/ /\ TotalSends < MaxSends
       /\ NoSession
       /\ \E s \in Users \ {SessionSender}, r \in Users, h \in Handles :
          \E m \in OtherStrings \cup (IF payload = <<>> THEN {} ELSE {payload}) :
              InputOwner(h) = s /\ SendMessage(s, r, m, h)
       /\ UNCHANGED <<now, clear, drawn, proof, expiredSeen, input, payload, produced, output, sessionVars>>
    \/ /\ now = 0
       /\ \E a \in AttemptIds : attempts[a].state = "ProofBuilt"
       /\ Tick(DurationDays + 1)
    \/ /\ \E user \in Recipients : LoadMessages(user)
       /\ UNCHANGED <<ledgerVars, cipherVars, uiVars>>
    \/ /\ HandleDecryptNotConnected
       /\ UNCHANGED <<ledgerVars, cipherVars, uiVars>>
    \/ /\ \E a \in AttemptIds, user \in Recipients, k \in 1..MaxSends :
              StartHandleDecrypt(a, user, k)
       /\ UNCHANGED <<ledgerVars, cipherVars, uiVars>>
    \/ /\ \E a \in AttemptIds, signer \in Users, recipient \in Recipients, index \in 0..MaxSends :
              StartTaskDecryptMessage(a, signer, recipient, index)
       /\ UNCHANGED <<ledgerVars, cipherVars, uiVars>>
    \/ /\ \E a \in AttemptIds, signer \in SignerOutcomes : BuildProofStep(a, signer)
       /\ UNCHANGED <<ledgerVars, input, payload, produced, shown, uiVars>>
    \/ /\ \E a \in AttemptIds, form \in RawKeyForms, found \in BOOLEAN :
              ResolveStep(a, form, found)
       /\ UNCHANGED <<ledgerVars, input, payload, produced, shown, uiVars>>
    \/ /\ \E a \in AttemptIds : FinishStep(a)
       /\ UNCHANGED <<ledgerVars, input, payload, produced, shown, uiVars>>
    \/ /\ \E a \in AttemptIds, h \in Handles : Resubmit(a, h)
       /\ UNCHANGED <<ledgerVars, cipherVars, shown, uiVars>>

SpecSession == Init /\ [][NextSession]_vars

(* Every awaited call of an attempt returns or throws *)
AttemptStep(a) ==
    /\ \/ \E signer \in SignerOutcomes : BuildProofStep(a, signer)
       \/ \E form \in RawKeyForms, found \in BOOLEAN : ResolveStep(a, form, found)
       \/ FinishStep(a)
    /\ UNCHANGED <<ledgerVars, input, payload, produced, shown, uiVars>>

SpecSessionFair ==
    Init /\ [][NextSession]_vars /\ \A a \in AttemptIds : WF_vars(AttemptStep(a))

----------------------------------------------------------------------------
(* Properties of the decrypt session, checked under SpecSession *)

NonTerminal == {"Requested", "ProofBuilt", "Resolved"}
Terminal == {"Completed", "Failed"}

(* The items of the list that an attempt is about *)
ItemsOf(list, attempt) == {k \in 1..Len(list) : list[k].index = attempt.index}

(* The handles of the records in a user's log *)
HandlesOf(user) == {messages[user][k].encryptedKey : k \in 1..Len(messages[user])}

LocalsGone(attempt) ==
    /\ attempt.keypair = <<>> /\ attempt.request = <<>>
    /\ attempt.rawKey = <<>> /\ attempt.decrypted = <<>>

KeyKeptOnlyAfterSuccess ==
    /\ \A a \in AttemptIds : attempts[a].state \in Terminal => LocalsGone(attempts[a])
    /\ \A k \in 1..Len(inbox) :
          inbox[k].decryptedKey # <<>> =>
              /\ \E a \in AttemptIds :
                    /\ attempts[a].state = "Completed" /\ attempts[a].by = "browser"
                    /\ attempts[a].index = inbox[k].index
              /\ inbox[k].decryptedKey[1] =
                     generateEphemeralAddress(clear[inbox[k].encryptedKey])
              /\ inbox[k].decryptedMessage # <<>>

KeyStoredOnSuccess ==
    \A a \in AttemptIds :
        (attempts[a].state = "Resolved" /\ attempts'[a].state = "Completed"
            /\ attempts[a].by = "browser") =>
            \A k \in ItemsOf(inbox', attempts[a]) :
                /\ inbox'[k].decryptedKey =
                       <<generateEphemeralAddress(clear[attempts[a].handle])>>
                /\ inbox'[k].decryptedMessage # <<>>

KeyKeptUntilReload ==
    \A k \in 1..Len(inbox) :
        inbox[k].decryptedKey # <<>> =>
            \/ k \in 1..Len(inbox') /\ inbox'[k].decryptedKey # <<>>
            \/ inbox' = loadMessages("bob")

Moves ==
    {<<"Idle", "Requested">>, <<"Requested", "ProofBuilt">>,
     <<"ProofBuilt", "Resolved">>, <<"Resolved", "Completed">>}
        \cup (NonTerminal \X {"Failed"})

LegalMove(a) ==
    /\ attempts'[a].state # attempts[a].state =>
          <<attempts[a].state, attempts'[a].state>> \in Moves
    /\ attempts[a].state \in Terminal => attempts'[a] = attempts[a]
    /\ (attempts[a].state \in NonTerminal /\ attempts'[a].state \in Terminal
            /\ attempts[a].by = "browser") =>
          \A k \in ItemsOf(inbox', attempts[a]) : ~inbox'[k].decrypting

(* C16: an attempt moves only along Requested, ProofBuilt, Resolved,       *)
(* Completed, or from one of the first three to Failed; Completed and      *)
(* Failed are final; when every awaited call returns or throws, every      *)
(* attempt that was started reaches Completed or Failed, and the step that *)
(* ends it clears the decrypting mark of its item.                         *)
C16_SessionStateMachine ==
    /\ [][\A a \in AttemptIds : LegalMove(a)]_vars
    /\ \A a \in AttemptIds :
          (attempts[a].state \in NonTerminal) ~> (attempts[a].state \in Terminal)

(* One attempt has Completed and another has Failed, and no item of the    *)
(* list is marked                                                          *)
C16_Witness ==
    /\ \E a, b \in AttemptIds :
          attempts[a].state = "Completed" /\ attempts[b].state = "Failed"
    /\ inbox # <<>>
    /\ \A k \in 1..Len(inbox) : ~inbox[k].decrypting

FailsClosed(a) ==
    (attempts[a].state # "Failed" /\ attempts'[a].state = "Failed") =>
        /\ attempts'[a].err # ""
        /\ LocalsGone(attempts'[a])
        /\ Len(inbox') = Len(inbox)
        /\ \A k \in 1..Len(inbox) :
              /\ inbox'[k].decryptedKey = inbox[k].decryptedKey
              /\ inbox'[k].decryptedMessage = inbox[k].decryptedMessage
        /\ attempts[a].by = "browser" => error' = <<attempts'[a].err>>
        /\ attempts[a].by = "node" =>
              /\ ~output'.ok /\ output'.err = attempts'[a].err
              /\ output'.text = <<>> /\ output'.address = <<>>

(* C17: when a step of an attempt fails (the signer is missing, the        *)
(* signing is rejected, the key store answers Unauthorized, the result     *)
(* lacks the handle, the ciphertext is malformed, the tag does not match)  *)
(* the attempt ends Failed: it stores no decrypted message and no          *)
(* decrypted key in any item, keeps no key material, and its error is      *)
(* shown (the inbox) or thrown (the task).                                 *)
C17_FailClosed == [][\A a \in AttemptIds : FailsClosed(a)]_vars

(* An attempt failed on a tag that does not match: its item holds nothing  *)
(* and the error is shown                                                  *)
C17_Witness ==
    \E a \in AttemptIds :
        /\ attempts[a].state = "Failed" /\ attempts[a].by = "browser"
        /\ attempts[a].err \in AuthenticationFailure
        /\ error = <<attempts[a].err>>
        /\ \A k \in ItemsOf(inbox, attempts[a]) :
              inbox[k].decryptedKey = <<>> /\ inbox[k].decryptedMessage = <<>>

(* What the key store answers to the request of an attempt in hand *)
StoreAnswer(a) ==
    userDecrypt(attempts[a].handle, THIS, attempts[a].request[1], now)

AtMostOneCall ==
    \A a \in AttemptIds :
        /\ calls[a].userDecrypt <= 1
        /\ calls[a].decrypt <= calls[a].userDecrypt
        /\ attempts[a].state \in {"Idle", "Requested", "ProofBuilt"} =>
              calls[a].userDecrypt = 0
        /\ attempts[a].state = "Resolved" =>
              calls[a].userDecrypt = 1 /\ calls[a].decrypt = 1

FailsWithoutRetry(a) ==
    /\ calls'[a].userDecrypt # calls[a].userDecrypt =>
          /\ attempts[a].state = "ProofBuilt"
          /\ attempts'[a].state \in {"Resolved", "Failed"}
    /\ (calls'[a].userDecrypt # calls[a].userDecrypt /\ ~StoreAnswer(a).ok) =>
          /\ attempts'[a].state = "Failed"
          /\ attempts'[a].err = "Unauthorized"
          /\ calls'[a].decrypt = 0
    /\ (attempts[a].state = "Resolved" /\ ~attempts[a].decrypted[1].ok
            /\ attempts'[a].state # "Resolved") =>
          /\ attempts'[a].state = "Failed"
          /\ attempts'[a].err = attempts[a].decrypted[1].err
    /\ attempts[a].state \in Terminal \cup {"Resolved"} => calls'[a] = calls[a]

(* C21. No retry: one decrypt attempt calls userDecrypt at most once and   *)
(* the cipher's decrypt at most once; when the key store answers           *)
(* Unauthorized, or decrypt fails (an authentication failure included),    *)
(* the attempt goes to Failed in that step, and it makes no further call:  *)
(* neither the proof nor the identifier is submitted again.                *)
C21_NoRetry ==
    /\ [](AtMostOneCall)
    /\ [][\A a \in AttemptIds : FailsWithoutRetry(a)]_vars

(* One attempt was refused by the key store after its single call, another *)
(* failed on the tag after its single userDecrypt and its single decrypt   *)
C21_Witness ==
    \E a, b \in AttemptIds :
        /\ attempts[a].state = "Failed" /\ attempts[a].err = "Unauthorized"
        /\ calls[a].userDecrypt = 1 /\ calls[a].decrypt = 0
        /\ attempts[b].state = "Failed" /\ attempts[b].err \in AuthenticationFailure
        /\ calls[b].userDecrypt = 1 /\ calls[b].decrypt = 1

(* C22. Proof validity window: the request an attempt signs starts at the  *)
(* time at which it is built and lasts 10 days, never more; the start and  *)
(* the duration the attempt hands to userDecrypt are those it signed.      *)
C22_ProofWindow ==
    \A a \in AttemptIds :
        /\ calls[a].built # <<>> =>
              /\ calls[a].built[1].signed.startTimeStamp = calls[a].built[1].at
              /\ calls[a].built[1].signed.durationDays \in 1..10
        /\ attempts[a].request # <<>> =>
              /\ calls[a].built # <<>>
              /\ attempts[a].request[1] = calls[a].built[1].signed
              /\ attempts[a].request[1].startTimeStamp <= now
        /\ calls[a].submitted # <<>> =>
              /\ calls[a].built # <<>>
              /\ calls[a].submitted[1].startTimeStamp =
                     calls[a].built[1].signed.startTimeStamp
              /\ calls[a].submitted[1].durationDays =
                     calls[a].built[1].signed.durationDays

(* A request built after the clock has moved, handed to userDecrypt and    *)
(* accepted, while an earlier request of the session was built at time 0   *)
C22_Witness ==
    \E a, b \in AttemptIds :
        /\ calls[a].built # <<>> /\ calls[a].built[1].at = 0
        /\ calls[b].built # <<>> /\ calls[b].built[1].at > 0
        /\ calls[b].submitted # <<>>
        /\ attempts[b].state = "Resolved"

----------------------------------------------------------------------------
(* The inbox as the app runs it: the connected account (useAccount), the   *)
(* count query (useReadContract) and the effect that loads the list, one   *)
(* step per awaited read: Inbox in app/src/components/MessageComposer.tsx  *)

(* countData: the count last fetched for the connected account, undefined  *)
(* (<<>>) when none was fetched or when no account is connected            *)
countData(user, cache) == IF user = "" THEN <<>> ELSE cache[user]

(* Indices that start at 1. *)
indicesFromOne(count) == [p \in 1..count |-> p]

(* Array.from({ length: count }, (_, index) => index), by position *)
indices(count) == [p \in 1..count |-> p - 1]

(* results.reverse() *)
reverse(results) == [k \in 1..Len(results) |-> results[Len(results) - k + 1]]

(* The cleanup of the effect: mounted = false in the runs before it *)
Cleanup(runs) == [l \in LoadIds |-> [runs[l] EXCEPT !.mounted = FALSE]]

(* The identity the next run gets *)
FreeLoad(l) ==
    /\ loads[l].state = "Idle"
    /\ \A m \in LoadIds : m < l => loads[m].state # "Idle"

(* The effect, run after the render in which the account, countData or the *)
(* refresh token changed: the cleanup of the run before, then loadMessages *)
(* up to its first await                                                   *)
loadEffect(user, data) ==
    LET count == IF data = <<>> THEN 0 ELSE data[1]
    IN  IF user = ""
        THEN /\ loads' = Cleanup(loads)
             /\ UNCHANGED <<inbox, error, isLoading, shown>>
        ELSE IF count <= 0
        THEN /\ loads' = Cleanup(loads)
             /\ inbox' = <<>>
             /\ shown' = user
             /\ UNCHANGED <<error, isLoading>>
        ELSE /\ \E l \in LoadIds :
                   /\ FreeLoad(l)
                   /\ loads' = [Cleanup(loads) EXCEPT ![l] =
                          [state |-> "Reading", mounted |-> TRUE, address |-> user,
                           count |-> count, results |-> [p \in 1..count |-> <<>>],
                           failed |-> FALSE, outOfRange |-> FALSE]]
             /\ isLoading' = TRUE
             /\ error' = <<>>
             /\ UNCHANGED <<inbox, shown>>

(* The wallet connects, switches to another account, or disconnects *)
SetAccount(next) ==
    /\ next # account
    /\ account' = next
    /\ loadEffect(next, countData(next, countCache))
    /\ UNCHANGED <<countCache, refreshToken>>

(* refetch(): the count of the connected account is read again *)
Refetch ==
    /\ account # ""
    /\ countCache[account] # <<getMessageCount(account)>>
    /\ countCache' = [countCache EXCEPT ![account] = <<getMessageCount(account)>>]
    /\ loadEffect(account, countCache'[account])
    /\ UNCHANGED <<account, refreshToken>>

(* MessengerApp.handleSent *)
handleSent ==
    /\ refreshToken' = refreshToken + 1
    /\ loadEffect(account, countData(account, countCache))
    /\ UNCHANGED <<account, countCache>>

(* One publicClient.readContract(getMessageAt) of a run returns or throws; *)
(* fails tells that the call did not reach the contract                    *)
ReadStep(l, p, fails) ==
    LET run == loads[l]
        index == indices(run.count)[p]
        data == getMessageAt(run.address, index)
    IN  /\ run.state = "Reading"
        /\ p \in 1..run.count
        /\ run.results[p] = <<>>
        /\ ~run.failed
        /\ loads' = [loads EXCEPT ![l] =
              IF fails THEN [run EXCEPT !.failed = TRUE]
              ELSE IF ~data.ok THEN [run EXCEPT !.failed = TRUE, !.outOfRange = TRUE]
              ELSE [run EXCEPT !.results[p] = <<MessageItem(index, data.val[1])>>]]
        /\ UNCHANGED <<inbox, error, isLoading, shown>>

(* Promise.all has settled: setMessages or setError, then the finally      *)
(* block, each only while the run is mounted                               *)
FinishLoad(l) ==
    LET run == loads[l]
    IN  /\ run.state = "Reading"
        /\ run.failed \/ \A p \in 1..run.count : run.results[p] # <<>>
        /\ loads' = [loads EXCEPT ![l] = NoLoad]
        /\ IF ~run.mounted
           THEN UNCHANGED <<inbox, error, isLoading, shown>>
           ELSE /\ isLoading' = FALSE
                /\ IF run.failed
                   THEN /\ error' = <<"Failed to load messages.">>
                        /\ UNCHANGED <<inbox, shown>>
                   ELSE /\ inbox' = reverse([p \in 1..run.count |-> run.results[p][1]])
                        /\ shown' = run.address
                        /\ UNCHANGED error

(* The inbox while other accounts keep sending: every account sends the    *)
(* same string under its own input                                         *)
NextLoad ==
    \/ /\ TotalSends < MaxSends
       /\ \E s \in Users, r \in Users : SendMessage(s, r, <<"x">>, <<s, 1>>)
       /\ UNCHANGED <<now, clear, drawn, proof, expiredSeen, cipherVars, sessionVars>>
    \/ /\ \E next \in Users \cup {""} : SetAccount(next)
       /\ UNCHANGED <<ledgerVars, cipherVars, attempts, calls, composer>>
    \/ /\ Refetch
       /\ UNCHANGED <<ledgerVars, cipherVars, attempts, calls, composer>>
    \/ /\ refreshToken < TotalSends
       /\ handleSent
       /\ UNCHANGED <<ledgerVars, cipherVars, attempts, calls, composer>>
    \/ /\ \E l \in LoadIds, p \in 1..MaxSends, fails \in BOOLEAN : ReadStep(l, p, fails)
       /\ UNCHANGED <<ledgerVars, cipherVars, attempts, calls, composer>>
       /\ UNCHANGED <<account, countCache, refreshToken>>
    \/ /\ \E l \in LoadIds : FinishLoad(l)
       /\ UNCHANGED <<ledgerVars, cipherVars, attempts, calls, composer>>
       /\ UNCHANGED <<account, countCache, refreshToken>>

SpecLoad == Init /\ [][NextLoad]_vars

(* Every run reads only records that an append has finished *)
ReadsAreComplete ==
    \A l \in LoadIds :
        loads[l].state = "Reading" =>
            /\ ~loads[l].outOfRange
            /\ loads[l].count <= getMessageCount(loads[l].address)
            /\ \A p \in 1..loads[l].count :
                  loads[l].results[p] # <<>> =>
                      LET appended == sent[loads[l].address][p]
                      IN  loads[l].results[p][1] =
                              MessageItem(p - 1,
                                  Message(appended.sender, appended.ciphertext,
                                          appended.handle, appended.timestamp))

LoadedListIsWhole ==
    \A l \in LoadIds :
        (/\ loads[l].state = "Reading" /\ loads'[l].state = "Idle"
         /\ loads[l].mounted /\ ~loads[l].failed) =>
            /\ Len(inbox') = loads[l].count
            /\ \A k \in 1..Len(inbox') :
                  /\ inbox'[k].index = loads[l].count - k
                  /\ inbox'[k] = loads[l].results[loads[l].count - k + 1][1]

(* C23. Reads concurrent with appends: a load that has read the count c of *)
(* a recipient and then reads getMessageAt for every index below c, while  *)
(* other accounts keep appending to that recipient, never gets an index    *)
(* out of range and never a partly written record: what it reads at k is   *)
(* the whole record of the k-th finished append; the list it sets has      *)
(* exactly c items, with the indices c-1 down to 0.                        *)
C23_ReadsConcurrentWithAppends ==
    /\ [](ReadsAreComplete)
    /\ [][LoadedListIsWhole]_vars

(* A load that read count 1 has set its list of one item after a second    *)
(* record was appended to the same log                                     *)
C23_Witness ==
    /\ account # ""
    /\ shown = account
    /\ Len(inbox) = 1
    /\ getMessageCount(account) = 2
    /\ countCache[account] = <<1>>
    /\ \A l \in LoadIds : loads[l].state = "Idle"

----------------------------------------------------------------------------
(* The inbox with its decrypt attempts, under connects, account switches   *)
(* and disconnects of the wallet.  The logs are written before the wallet  *)
(* first connects, and every read of a load reaches the contract.          *)
Unopened ==
    /\ account = "" /\ shown = ""
    /\ \A user \in Users : countCache[user] = <<>>

(* The button of the k-th item of the list is clicked: handleDecrypt(item) *)
(* runs with the account connected at that render                          *)
ClickDecrypt(a, k) ==
    /\ account # ""
    /\ StartHandleDecrypt(a, account, k)

(* One decrypt is followed through the account switches *)
InboxAttempts == {1}

NextInbox ==
    \/ /\ TotalSends < MaxSends
       /\ Unopened
       /\ \E r \in Users, h \in Pool :
              HandleSend(SessionSender, r, SessionMessage, h, SessionIv)
       /\ UNCHANGED <<now, clear, proof, expiredSeen, sessionVars>>
    \/ /\ \E next \in Users \cup {""} : SetAccount(next)
       /\ UNCHANGED <<ledgerVars, cipherVars, attempts, calls, composer>>
    \/ /\ Refetch
       /\ UNCHANGED <<ledgerVars, cipherVars, attempts, calls, composer>>
    \/ /\ \E l \in LoadIds, p \in 1..MaxSends : ReadStep(l, p, FALSE)
       /\ UNCHANGED <<ledgerVars, cipherVars, attempts, calls, composer>>
       /\ UNCHANGED <<account, countCache, refreshToken>>
    \/ /\ \E l \in LoadIds : FinishLoad(l)
       /\ UNCHANGED <<ledgerVars, cipherVars, attempts, calls, composer>>
       /\ UNCHANGED <<account, countCache, refreshToken>>
    \/ /\ account = ""
       /\ HandleDecryptNotConnected
       /\ UNCHANGED <<ledgerVars, cipherVars, uiVars>>
    \/ /\ \E a \in InboxAttempts, k \in 1..MaxSends : ClickDecrypt(a, k)
       /\ UNCHANGED <<ledgerVars, cipherVars, uiVars>>
    \/ /\ \E a \in InboxAttempts, signer \in SignerOutcomes : BuildProofStep(a, signer)
       /\ UNCHANGED <<ledgerVars, input, payload, produced, shown, uiVars>>
    \/ /\ \E a \in InboxAttempts, form \in RawKeyForms :
              ResolveStep(a, form, TRUE)
       /\ UNCHANGED <<ledgerVars, input, payload, produced, shown, uiVars>>
    \/ /\ \E a \in InboxAttempts : FinishStep(a)
       /\ UNCHANGED <<ledgerVars, input, payload, produced, shown, uiVars>>

SpecInbox == Init /\ [][NextInbox]_vars

(* What decrypt returns for the record of an item under the address that   *)
(* the item's own handle encrypts                                          *)
OwnPlaintext(item) ==
    decryptMessage(item.encryptedMessage, AddressOf(item.encryptedKey))

(* C24 as stated: under any interleaving of decrypt attempts, reloads and  *)
(* account switches, a decrypted plaintext and key are attached only to    *)
(* the item whose ciphertext and handle they were recovered from; a        *)
(* decrypt started for index k of one recipient never marks index k of     *)
(* another recipient's list.                                               *)
C24_ResultsOnRightRecordAsStated ==
    \A k \in 1..Len(inbox) :
        /\ inbox[k].decryptedKey # <<>> =>
              inbox[k].decryptedKey[1] = AddressOf(inbox[k].encryptedKey)
        /\ inbox[k].decryptedMessage # <<>> =>
              /\ OwnPlaintext(inbox[k]).ok
              /\ inbox[k].decryptedMessage[1] = OwnPlaintext(inbox[k]).text

----------------------------------------------------------------------------
(* MessageComposer.handleSend step by step, next to the inbox it          *)
(* refreshes; the wallet connects once and may disconnect                  *)

inboxVars == <<inbox, error, shown, account, countCache, refreshToken, loads, isLoading>>

(* The strings typed into the recipient field ("" when left empty) and     *)
(* into the message field                                                  *)
RecipientFields == Users \cup {ZERO, ""}
MessageFields == {<<"a">>, <<" ">>}

(* The catch and the finally block of handleSend *)
SendFailed(send, err) ==
    [send EXCEPT !.state = "Idle", !.isSending = FALSE, !.error = <<err>>,
                 !.ephemeralAddress = <<>>, !.encryptedMessage = <<>>, !.handle = <<>>,
                 !.steps = Append(@, "fail")]

(* The button is clicked: it is enabled while an account is connected and  *)
(* no send is in flight.  handleSend validates the fields and awaits the   *)
(* signer.  One transaction of the composer is in flight at a time.        *)
StartHandleSend(recipient, message) ==
    /\ account # ""
    /\ composer.state = "Idle"
    /\ ~composer.isSending
    /\ composer.pending = <<>>
    /\ \E h \in Pool : NextInput(account, h)
    /\ composer' =
          IF recipient = ""
          THEN [NoComposer EXCEPT !.error = <<"Enter a valid recipient address.">>]
          ELSE IF trim(message) = <<>>
          THEN [NoComposer EXCEPT !.error = <<"Message text cannot be empty.">>]
          ELSE [NoComposer EXCEPT !.state = "Signer", !.isSending = TRUE,
                                  !.sender = account, !.recipient = recipient,
                                  !.message = message]

(* signerPromise resolves; with a signer the one-time address is generated *)
(* and encryptMessage is called                                            *)
SignerStep(signer, handle) ==
    /\ composer.state = "Signer"
    /\ IF ~signer
       THEN /\ composer' = SendFailed(composer, "Signer not available.")
            /\ UNCHANGED drawn
       ELSE /\ NextInput(composer.sender, handle)
            /\ drawn' = Append(drawn, handle)
            /\ composer' = [composer EXCEPT !.state = "Encrypting",
                  !.ephemeralAddress = <<generateEphemeralAddress(clear[handle])>>]

(* encryptMessage returns or throws; then the address is added to an       *)
(* encrypted input of the sender and input.encrypt() is called             *)
EncryptStep(throws) ==
    /\ composer.state = "Encrypting"
    /\ composer' =
          IF throws THEN SendFailed(composer, "Failed to send message.")
          ELSE [composer EXCEPT !.state = "Committing",
                  !.encryptedMessage =
                      <<encryptMessage(trim(composer.message), composer.ephemeralAddress[1],
                                       SessionIv)>>,
                  !.steps = Append(@, "encrypt")]

(* The handle of the sender's input that encrypts the address *)
InputHandle(sender, address) ==
    CHOOSE h \in Pool :
        InputOwner(h) = sender /\ generateEphemeralAddress(clear[h]) = address

(* The relayer answers input.encrypt() with the handle and its proof, or   *)
(* the call throws; with the handle messenger.sendMessage is called       *)
CommitStep(throws) ==
    /\ composer.state = "Committing"
    /\ composer' =
          IF throws THEN SendFailed(composer, "Failed to send message.")
          ELSE [composer EXCEPT !.state = "Submitting",
                  !.handle = <<InputHandle(composer.sender, composer.ephemeralAddress[1])>>,
                  !.steps = Append(@, "commit")]

(* messenger.sendMessage: the gas estimate reverts as the call would, or   *)
(* the wallet refuses to sign, or the transaction is sent                  *)
SubmitStep(rejects) ==
    LET err == sendMessageError(composer.sender, composer.recipient,
                                composer.encryptedMessage[1], composer.handle[1])
    IN  /\ composer.state = "Submitting"
        /\ composer' =
              IF err # "" THEN SendFailed(composer, err)
              ELSE IF rejects THEN SendFailed(composer, "user rejected action")
              ELSE [composer EXCEPT !.state = "Waiting",
                      !.pending = <<[sender |-> composer.sender,
                                     recipient |-> composer.recipient,
                                     encryptedMessage |-> composer.encryptedMessage[1],
                                     encryptedKey |-> composer.handle[1]]>>,
                      !.steps = Append(@, "submit")]

(* The network includes the transaction in a block *)
MineStep ==
    /\ composer.pending # <<>>
    /\ LET tx == composer.pending[1]
       IN  SendMessage(tx.sender, tx.recipient, tx.encryptedMessage, tx.encryptedKey)
    /\ composer' = [composer EXCEPT !.pending = <<>>,
                                    !.appended = @ + (IF ret'.ok THEN 1 ELSE 0),
                                    !.steps = Append(@, "append")]

(* A handler that refreshes the inbox whether or not the wait returned *)
ConfirmStepAlwaysRefresh(throws) ==
    /\ composer.state = "Waiting"
    /\ throws \/ composer.pending = <<>>
    /\ composer' =
          IF throws
          THEN [SendFailed(composer, "Failed to send message.") EXCEPT !.onSent = @ + 1]
          ELSE [composer EXCEPT !.state = "Idle", !.isSending = FALSE,
                   !.recipient = "", !.message = <<>>,
                   !.ephemeralAddress = <<>>, !.encryptedMessage = <<>>, !.handle = <<>>,
                   !.steps = @ \o <<"confirm", "onSent">>, !.onSent = @ + 1]
    /\ handleSent

(* tx.wait() returns the receipt once the transaction is in a block, or    *)
(* throws, before or after that; after the receipt the fields are cleared  *)
(* and onSent is called; the finally block ends the send                   *)
ConfirmStep(throws) ==
    /\ composer.state = "Waiting"
    /\ IF throws
       THEN /\ composer' = SendFailed(composer, "Failed to send message.")
            /\ UNCHANGED inboxVars
       ELSE /\ composer.pending = <<>>
            /\ composer' = [composer EXCEPT !.state = "Idle", !.isSending = FALSE,
                  !.recipient = "", !.message = <<>>,
                  !.ephemeralAddress = <<>>, !.encryptedMessage = <<>>, !.handle = <<>>,
                  !.steps = @ \o <<"confirm", "onSent">>, !.onSent = @ + 1]
            /\ handleSent

NextCompose ==
    \/ /\ TotalSends < MaxSends
       /\ \E recipient \in RecipientFields, message \in MessageFields :
              StartHandleSend(recipient, message)
       /\ UNCHANGED <<ledgerVars, cipherVars, attempts, calls, inboxVars>>
    \/ /\ \E signer \in BOOLEAN, h \in Pool : SignerStep(signer, h)
       /\ UNCHANGED <<messages, acl, events, now, ret, sent, clear, proof, expiredSeen>>
       /\ UNCHANGED <<cipherVars, attempts, calls, inboxVars>>
    \/ /\ \E throws \in BOOLEAN : EncryptStep(throws)
       /\ UNCHANGED <<ledgerVars, cipherVars, attempts, calls, inboxVars>>
    \/ /\ \E throws \in BOOLEAN : CommitStep(throws)
       /\ UNCHANGED <<ledgerVars, cipherVars, attempts, calls, inboxVars>>
    \/ /\ \E rejects \in BOOLEAN : SubmitStep(rejects)
       /\ UNCHANGED <<ledgerVars, cipherVars, attempts, calls, inboxVars>>
    \/ /\ MineStep
       /\ UNCHANGED <<now, clear, drawn, proof, expiredSeen>>
       /\ UNCHANGED <<cipherVars, attempts, calls, inboxVars>>
    \/ /\ \E throws \in BOOLEAN : ConfirmStep(throws)
       /\ UNCHANGED <<ledgerVars, cipherVars, attempts, calls>>
    \/ /\ \E next \in Users \cup {""} :
              /\ Unopened \/ next = ""
              /\ SetAccount(next)
       /\ UNCHANGED <<ledgerVars, cipherVars, attempts, calls, composer>>
    \/ /\ Refetch
       /\ UNCHANGED <<ledgerVars, cipherVars, attempts, calls, composer>>
    \/ /\ \E l \in LoadIds, p \in 1..MaxSends : ReadStep(l, p, FALSE)
       /\ UNCHANGED <<ledgerVars, cipherVars, attempts, calls, composer>>
       /\ UNCHANGED <<account, countCache, refreshToken>>
    \/ /\ \E l \in LoadIds : FinishLoad(l)
       /\ UNCHANGED <<ledgerVars, cipherVars, attempts, calls, composer>>
       /\ UNCHANGED <<account, countCache, refreshToken>>

SpecCompose == Init /\ [][NextCompose]_vars

(* The steps of a send that reaches its end *)
Pipeline == <<"encrypt", "commit", "submit", "append", "confirm", "onSent">>

(* The position of a step in the steps of the send, 0 if it was not taken *)
StepAt(name) ==
    IF \E i \in 1..Len(composer.steps) : composer.steps[i] = name
    THEN CHOOSE i \in 1..Len(composer.steps) : composer.steps[i] = name
    ELSE 0

Taken(name) == StepAt(name) > 0

(* C25 as stated: in one send the message is encrypted before the          *)
(* identifier is committed and the append is submitted after both; onSent  *)
(* fires once and only after the append was confirmed; if any step fails,  *)
(* no record is appended by that send and onSent does not fire; isSending  *)
(* is false once the send has finished.                                    *)
C25_SendPipelineAsStated ==
    /\ Taken("fail") => (composer.appended = 0 /\ composer.onSent = 0)
    /\ composer.state = "Idle" => ~composer.isSending

SendInOrder ==
    /\ \A i \in 1..Len(composer.steps) :
          composer.steps[i] \in {"fail", "append"} \/ composer.steps[i] = Pipeline[i]
    /\ Taken("commit") => (Taken("encrypt") /\ StepAt("encrypt") < StepAt("commit"))
    /\ Taken("submit") => (Taken("commit") /\ StepAt("commit") < StepAt("submit"))
    /\ Taken("append") => (Taken("submit") /\ StepAt("submit") < StepAt("append"))
    /\ composer.pending # <<>> =>
          /\ Taken("submit") /\ ~Taken("append")
          /\ LET tx == composer.pending[1]
                 opened == decryptMessage(tx.encryptedMessage,
                               generateEphemeralAddress(clear[tx.encryptedKey]))
             IN  /\ tx.encryptedKey = drawn[Len(drawn)]
                 /\ tx.sender = composer.sender
                 /\ opened.ok
                 /\ opened.text = trim(composer.message)
    /\ composer.appended = (IF Taken("append") THEN 1 ELSE 0)

SentOnceAfterConfirmation ==
    /\ composer.onSent \in {0, 1}
    /\ composer.onSent = 1 =>
          /\ composer.steps = Pipeline
          /\ composer.appended = 1
    /\ Taken("fail") => composer.onSent = 0
    /\ (Taken("fail") /\ ~Taken("submit")) =>
          (composer.appended = 0 /\ composer.pending = <<>>)
    /\ composer.state = "Idle" => ~composer.isSending
    /\ composer.state # "Idle" => (composer.isSending /\ ~Taken("fail"))

RefreshOnlyByOnSent ==
    /\ refreshToken' # refreshToken =>
          /\ refreshToken' = refreshToken + 1
          /\ composer'.onSent = composer.onSent + 1
          /\ composer.pending = <<>> /\ composer.appended = 1
    /\ composer'.onSent # composer.onSent =>
          (refreshToken' = refreshToken + 1 \/ composer'.onSent = 0)
    /\ Len(events') # Len(events) =>
          /\ Len(events') = Len(events) + 1
          /\ composer.pending # <<>>
          /\ composer'.appended = composer.appended + 1
          /\ LET e == events'[Len(events')]
                 record == messages'[e.recipient][e.index + 1]
             IN  /\ record.encryptedMessage = composer.pending[1].encryptedMessage
                 /\ record.encryptedKey = composer.pending[1].encryptedKey

(* C25, amended. In one send the message is encrypted with the one-time    *)
(* address before the address is committed as an encrypted input, and the  *)
(* transaction carrying both is submitted only after both succeeded; a     *)
(* record is appended only by a submitted transaction.  onSent fires at    *)
(* most once per send, only after the append was confirmed, and each call  *)
(* raises the refresh token by one.  A send that fails before or at        *)
(* submission appends nothing; a send whose wait for the confirmation      *)
(* fails does not fire onSent, while its transaction may still be, or      *)
(* have been, appended.  isSending is true during the send and false once  *)
(* it has finished in either outcome.                                      *)
C25_SendPipeline ==
    /\ [](SendInOrder /\ SentOnceAfterConfirmation)
    /\ [][RefreshOnlyByOnSent]_vars

(* A send that went through after an earlier send of the account had       *)
(* failed                                                                  *)
C25_Witness ==
    /\ composer.steps = Pipeline
    /\ composer.onSent = 1
    /\ ~composer.isSending
    /\ refreshToken = 1
    /\ Len(drawn) = 2
    /\ TotalSends = 1

----------------------------------------------------------------------------
(* Per-recipient partitioning of the contract's state, checked under Spec *)

(* The handles that some record carries *)
Issued == {h \in Handles : CommitRecipients(h) # {}}

(* The accounts holding a grant on a handle after the step *)
GrantedAfter(handle) == {a \in Accounts : <<handle, a>> \in acl'}

(* The step appended a record *)
RecordAdded == Len(events') = Len(events) + 1

(* C26 as stated: a successful append to R changes only R's log, by one    *)
(* record at its end, and the grants of the newly issued handle; the       *)
(* other logs, the existing records of R and the grants of every           *)
(* previously issued handle are unchanged.                                 *)
C26_PartitioningAsStated ==
    [][RecordAdded =>
          LET R == events'[Len(events')].recipient
          IN  /\ messages'[R] = Append(messages[R], messages'[R][Len(messages'[R])])
              /\ \A r \in Accounts \ {R} : messages'[r] = messages[r]
              /\ \A h \in Issued : GrantedAfter(h) = GrantedTo(h)]_vars

AppendFrame ==
    IF RecordAdded
    THEN LET R == events'[Len(events')].recipient
             key == messages'[R][Len(messages'[R])].encryptedKey
         IN  /\ Len(messages'[R]) = Len(messages[R]) + 1
             /\ \A k \in 1..Len(messages[R]) : messages'[R][k] = messages[R][k]
             /\ \A r \in Accounts \ {R} :
                   /\ messages'[r] = messages[r]
                   /\ getMessageCount(r)' = getMessageCount(r)
             /\ GrantedAfter(key) = GrantedTo(key) \cup {THIS, R}
             /\ \A h \in Handles \ {key} : GrantedAfter(h) = GrantedTo(h)
    ELSE /\ messages' = messages
         /\ acl' = acl
         /\ events' = events

(* C26, amended. A successful append to recipient R adds one record at the *)
(* end of R's log and grants the handle that the record carries to the     *)
(* contract and to R; the log and the count of every other recipient,      *)
(* every existing record of R and the grants of every other handle are     *)
(* unchanged.  The handle carried may have been issued before: then its    *)
(* grants grow by R.  No other operation changes a log or a grant.         *)
C26_Partitioning == [][AppendFrame]_vars

(* Both logs hold a record, each with a handle of its own: the second      *)
(* append left the first log and the first handle's grants as they were    *)
C26_Witness ==
    /\ Len(events) = 2
    /\ events[1].recipient # events[2].recipient
    /\ LET first == messages[events[1].recipient][1]
           second == messages[events[2].recipient][1]
       IN  /\ first.encryptedKey # second.encryptedKey
           /\ GrantedTo(first.encryptedKey) = {THIS, events[1].recipient}
           /\ GrantedTo(second.encryptedKey) = {THIS, events[2].recipient}

----------------------------------------------------------------------------
(* The recipient precondition of a decrypt attempt *)

(* The attempt is made by a principal other than the recipient whose log   *)
(* its record is read from                                                 *)
ForeignAttempt(a) ==
    /\ attempts[a].state # "Idle"
    /\ attempts[a].user # attempts[a].owner

(* C27 as stated: a decrypt attempt whose signing principal is not the     *)
(* recipient whose log is being read fails before any resolve request is   *)
(* sent to the confidential store and before any identifier is obtained.   *)
C27_RecipientPreconditionAsStated ==
    \A a \in AttemptIds :
        ForeignAttempt(a) =>
            /\ calls[a].userDecrypt = 0
            /\ attempts[a].rawKey = <<>>
            /\ attempts[a].state \notin {"Resolved", "Completed"}

----------------------------------------------------------------------------
(* What the inbox shows, and its loading indicator *)

(* No run of the load effect is in flight *)
NoLoadInFlight == \A l \in LoadIds : loads[l].state = "Idle"

(* The item shows the record of the user's log at its index *)
ItemOf(user, item) ==
    /\ item.index < getMessageCount(user)
    /\ LET record == messages[user][item.index + 1]
       IN  /\ item.sender = record.sender
           /\ item.encryptedMessage = record.encryptedMessage
           /\ item.encryptedKey = record.encryptedKey
           /\ item.timestamp = record.timestamp

(* C28 as stated: once no load is in flight, every item of the displayed   *)
(* list, with any decrypted plaintext or key it carries, is a record of    *)
(* the connected address's log; when no address is connected the list is   *)
(* empty.                                                                  *)
C28_OnlyCurrentAccountAsStated ==
    NoLoadInFlight =>
        IF account = ""
        THEN inbox = <<>>
        ELSE \A k \in 1..Len(inbox) :
                /\ ItemOf(account, inbox[k])
                /\ inbox[k].decryptedKey # <<>> =>
                      inbox[k].decryptedKey[1] = AddressOf(inbox[k].encryptedKey)

(* C29 as stated: when the load effect is re-run while an earlier load is  *)
(* in flight, the earlier load's results and errors are never written into *)
(* the list; the list reflects the most recently started load, and the     *)
(* loading indicator is false once that load has finished.                 *)
C29_StaleLoadsDiscardedAsStated ==
    NoLoadInFlight => ~isLoading

----------------------------------------------------------------------------
(* The two implementations of the envelope cipher, side by side *)

(* C30 as stated: for every payload string and identifier, decryptMessage  *)
(* of the browser and decryptMessageWithAddress of the tasks either both   *)
(* return the same plaintext or both fail; a payload produced by either    *)
(* encrypt is decrypted by the other.                                      *)
C30_InterchangeableAsStated ==
    produced # NoProduced =>
        \A address \in Identifiers :
            LET browser == decryptMessage(payload, address)
                node == decryptMessageWithAddress(payload, address)
            IN  /\ browser.ok = node.ok
                /\ browser.ok => browser.text = node.text

----------------------------------------------------------------------------
(* Recovery of the one-time address from the clear value of the key store *)

(* The address written by ten limbs of four digits *)
AddressOfLimbs(limbs) ==
    [i \in 1..AddressDigits |->
        LET limb == limbs[((i - 1) \div LimbDigits) + 1]
            place == LimbDigits - 1 - ((i - 1) % LimbDigits)
        IN  (limb \div (16 ^ place)) % 16]

(* Addresses with and without zero bytes in front, with a zero nibble in   *)
(* front, with zero bytes inside and at the end, address(0) included       *)
RecoverIdentifiers ==
    {AddressOfLimbs(<<hi, 0, 0, 0, mid, 0, 0, 0, 0, lo>>) :
        hi \in {0, 15, 255, 65535}, mid \in {0, 65535}, lo \in {0, 1}}

RecoverInputs ==
    [message : {<<>>, <<"a">>}, address : RecoverIdentifiers]

InitRecover ==
    /\ messages = [r \in Accounts |-> <<>>]
    /\ acl = {}
    /\ events = <<>>
    /\ now = 0
    /\ ret = NoRet
    /\ sent = [r \in Accounts |-> <<>>]
    /\ clear = [h \in Pool |-> EphemeralOf(h)]
    /\ drawn = <<>>
    /\ proof = <<>>
    /\ expiredSeen = FALSE
    /\ input \in RecoverInputs
    /\ payload = <<>>
    /\ produced = NoProduced
    /\ output = NoOutput
    /\ inbox = <<>>
    /\ attempts = [a \in AttemptIds |-> NoAttempt]
    /\ error = <<>>
    /\ calls = [a \in AttemptIds |-> NoCalls]
    /\ shown = ""
    /\ account = ""
    /\ countCache = [user \in Users |-> <<>>]
    /\ refreshToken = 0
    /\ loads = [l \in LoadIds |-> NoLoad]
    /\ isLoading = FALSE
    /\ composer = NoComposer

(* The decrypt path of the inbox from the clear value on: the key store    *)
(* hands over the address that the message was encrypted with              *)
RecoverInBrowser(form) ==
    /\ produced # NoProduced
    /\ LET rawKey == ClearValue(form, input.address)
           decryptedKey == normalizeDecryptedAddress(rawKey)
       IN  /\ ret' = Ret("normalizeDecryptedAddress", TRUE, "", <<rawKey>>, <<decryptedKey>>)
           /\ output' = Output("browser", <<>>, decryptedKey,
                               decryptMessage(payload, decryptedKey))
    /\ UNCHANGED <<input, payload, produced>>

(* The same of task:decrypt-message *)
RecoverInTask(form) ==
    /\ produced # NoProduced
    /\ LET clearKey == ClearValue(form, input.address)
           clearAddress == normalizeDecryptedAddress(clearKey)
       IN  /\ ret' = Ret("normalizeDecryptedAddress", TRUE, "", <<clearKey>>, <<clearAddress>>)
           /\ output' = Output("node", <<>>, clearAddress,
                               decryptMessageWithAddress(payload, clearAddress))
    /\ UNCHANGED <<input, payload, produced>>

recoverFrame == <<messages, acl, events, now, sent, clear, drawn, proof, expiredSeen, sessionVars>>

NextRecover ==
    \/ /\ EncryptMessage(SessionIv)
       /\ UNCHANGED <<ledgerVars, sessionVars>>
    \/ /\ EncryptMessageWithAddress(SessionIv)
       /\ UNCHANGED <<ledgerVars, sessionVars>>
    \/ /\ \E form \in RawKeyForms : RecoverInBrowser(form)
       /\ UNCHANGED recoverFrame
    \/ /\ \E form \in RawKeyForms : RecoverInTask(form)
       /\ UNCHANGED recoverFrame

SpecRecover == InitRecover /\ [][NextRecover]_vars

(* C31: for every 20-byte address, with or without zero bytes in front,    *)
(* normalizeDecryptedAddress of the key store's clear value for it, be it  *)
(* the unsigned integer, the hex string with 0x or the 40 digits without,  *)
(* returns that address in its normalized form, so that the key derived on *)
(* decrypt is the key derived on encrypt.                                  *)
C31_IdentifierRecovery ==
    ret.op = "normalizeDecryptedAddress" =>
        /\ isAddress(ret.val[1])
        /\ ret.val[1] = normalizeAddress(ClearValue("0x", input.address))
        /\ output.address = ret.val[1]
        /\ deriveKeyFromAddress(ret.val[1]) = deriveKeyFromAddress(input.address)

(* An address with zero bytes in front and inside was recovered from the   *)
(* unsigned integer, whose digits are fewer than 40, and opened the        *)
(* message that the other implementation had encrypted with it             *)
C31_Witness ==
    /\ ret.op = "normalizeDecryptedAddress"
    /\ ret.args[1].type = "bigint"
    /\ Len(ret.args[1].n) = 6
    /\ Len(bigintToString16(ret.args[1].n)) = 24
    /\ input.address[1] = 0 /\ input.address[2] = 0
    /\ produced.by # output.by
    /\ output.ok
    /\ output.text = <<"a">>

====
